---- MODULE Spec2Model ----
(***************************************************************************)
(* A model of cheburcheck: the active prober (reporter/src/main.rs), the   *)
(* passive classifier (src/lists.rs) and the Checker orchestration         *)
(* (querying/src/lib.rs).                                                  *)
(***************************************************************************)
EXTENDS Integers, Sequences, FiniteSets, TLC

(***************************************************************************)
(* Bounds of the model.                                                    *)
(***************************************************************************)
MaxTargets == 3
MaxProbes == 2
MaxRetry == 2
AddrBits == 2
MaxRows == 2
MaxDomainLen == 3
MaxCycles == 2
MaxReaders == 2
MaxCalls == 3
MaxChecks == 2

\* reporter/src/main.rs:285: the least body length that counts as a full answer.
MinBodyLen == 65535

None == "None"

(***************************************************************************)
(* State of the prober.                                                    *)
(***************************************************************************)
VARIABLES
    probe_count,   \* Args.probe_count
    retry_count,   \* Args.retry_count
    targets,       \* the target list, a sequence of names
    mainPc,        \* where main is: "idle" | "loop" | "acquire" | "collect" | "finish" |
                   \* "upload" | "exited"
    pos,           \* index of the target the dispatch loop is at
    sem,           \* permits available in the semaphore
    cancelled,     \* the AtomicUsize of wait_for_ctrlc
    task,          \* per target index: [st, attempts, res, last]; res and last (the
                   \* final attempt's outcome when it was a transport failure other
                   \* than a timeout) are kept while st = "finished"; st is
                   \* "none", "running", "finished", "collected", or "lost" (its
                   \* JoinError was logged)
    futs,          \* indexes of the spawned tasks not yet collected
    counter,       \* the Counter: [ok, block, err, early, results]
    exitCode,      \* <<>> while running, else <<the process exit code>>
    report,        \* what main has put out: [file, uploads, sent]: the output file
                   \* (<<>> or <<results>>), the calls of upload_results, the
                   \* results the request carried if one was sent
    attempts,      \* check_target run alone: its attempt counter
    history,       \* check_target run alone: the outcomes of its attempts so far
    verdict,       \* check_target run alone: Pending, or what it returned
    timeout_secs,  \* Args.timeout_secs
    args_ip,       \* Args.ip, the vantage address; <<>> while no Args are parsed
    built,         \* the calls of build_client so far: [attempt, client], client
                   \* being <<>> (the builder failed) or <<the Client>>
    resolved,      \* the calls of Resolver::resolve so far: [name, addrs]
    cdn_list,      \* CdnList.trie: a map from network to NetworkRecord
    ru_blacklist,  \* RuBlacklist: [ip_trie, domain_trie, domain_count]
    listInput,     \* classifier run alone: the rows / lines handed to update
    listLoaded,    \* classifier run alone: has update returned Ok
    listAnswer,    \* classifier run alone: <<>> or <<query, what contains returned>>
    geo_ip,        \* GeoIp: [asn, country, city], each "none" or the database loaded
    lock,          \* the three RwLocks: [readers, writer, waiting] per dataset
    last_update,   \* the watch channel's value: <<>> (None) or <<timestamp>>
    cycles,        \* update_all cycles started so far (the clock of Utc::now)
    upd,           \* update_all: [pc, ds, base, failed]: the step, the dataset it is
                   \* at, the downloaded input, and the datasets whose failure this
                   \* call has logged
    chk,           \* a Checker.check call: [pc, target, raw, ips, geo, cdn, domain,
                   \* subnets, result]
    observed,      \* per caller of last_update: [called, value], what its latest
                   \* call returned
    peers,         \* per concurrent Checker.check call, as far as the locks see
                   \* it: "idle", or the step it is at: "geo", "cdn", "ru", "return"
    totals,        \* a Checker::total_v4s call: its position, the two counts it
                   \* read and what it returned
    geoReads,      \* GeoIp::lookup run alone: what its three readers answer
    geoInfo        \* GeoIp::lookup run alone: <<>> or <<what lookup returned>>

proberVars ==
    <<probe_count, targets, mainPc, pos, sem, cancelled, task, futs, counter, exitCode,
      report>>
probeVars == <<attempts, history, verdict, timeout_secs, args_ip, built, resolved>>
listVars == <<cdn_list, ru_blacklist, listInput, listLoaded, listAnswer>>
checkerVars == <<geo_ip, lock, last_update, cycles, upd, chk, observed, peers, totals, geoReads, geoInfo>>
vars == <<probe_count, retry_count, targets, mainPc, pos, sem, cancelled, task,
          futs, counter, exitCode, report, attempts, history, verdict,
          timeout_secs, args_ip, built, resolved,
          cdn_list, ru_blacklist, listInput, listLoaded, listAnswer,
          geo_ip, lock, last_update, cycles, upd, chk, observed, peers, totals, geoReads, geoInfo>>

(***************************************************************************)
(* check_target: one attempt and its classification.                       *)
(***************************************************************************)
BodyLens == {0, MinBodyLen - 1, MinBodyLen, MinBodyLen + 1}

\* What one attempt can end in.  k = "build_err": build_client failed;
\* "send_err": send() failed (no response head); "body_err": the head arrived
\* and reading the body failed; "resp": status and full body were read.
\* timeout / connect are reqwest::Error::is_timeout / is_connect.
Outcomes ==
    {[k |-> "build_err", timeout |-> FALSE, connect |-> FALSE, success |-> FALSE, len |-> 0]}
    \cup {[k |-> "send_err", timeout |-> t, connect |-> c, success |-> FALSE, len |-> 0] :
              t \in BOOLEAN, c \in BOOLEAN}
    \cup {[k |-> "body_err", timeout |-> t, connect |-> FALSE, success |-> FALSE, len |-> 0] :
              t \in BOOLEAN}
    \cup {[k |-> "resp", timeout |-> FALSE, connect |-> FALSE, success |-> s, len |-> n] :
              s \in BOOLEAN, n \in BodyLens}

Pending == [v |-> "Pending", early |-> FALSE, timeout |-> FALSE, connect |-> FALSE]
Continue == [v |-> "Continue", early |-> FALSE, timeout |-> FALSE, connect |-> FALSE]
Accepted == [v |-> "Accepted", early |-> FALSE, timeout |-> FALSE, connect |-> FALSE]
Blocked(early) == [v |-> "Blocked", early |-> early, timeout |-> FALSE, connect |-> FALSE]
Err(o) == [v |-> "Err", early |-> FALSE, timeout |-> o.timeout, connect |-> o.connect]

IsSuccess_OffByOne(o) == o.success /\ ~(o.len <= MinBodyLen)
\* The success test of a response: `warn` is None.
IsSuccess(o) == o.success /\ ~(o.len < MinBodyLen)

RetriesRemain_CountedFromZero(n, retry) == n - 1 < retry
RetriesRemain_OffByOne(n, retry) == n <= retry
\* attempts < args.retry_count
RetriesRemain(n, retry) == n < retry

EarlyOf_Always(o) == TRUE
\* The flag paired with a failed attempt: true for send(), false for bytes().
EarlyOf(o) == o.k = "send_err"

Classify_ErrorsAreBlocked(n, retry, o) ==
    IF o.k = "build_err" THEN Err(o)
    ELSE IF o.k = "resp"
         THEN IF IsSuccess(o) THEN Accepted
              ELSE IF RetriesRemain(n, retry) THEN Continue
                   ELSE Blocked(FALSE)
         ELSE IF RetriesRemain(n, retry) THEN Continue
              ELSE Blocked(EarlyOf(o))
\* The body of check_target's loop after `attempts += 1`: n is the number of
\* this attempt, o its outcome.  Continue stands for `continue`.
Classify(n, retry, o) ==
    IF o.k = "build_err" THEN Err(o)
    ELSE IF o.k = "resp"
         THEN IF IsSuccess(o) THEN Accepted
              ELSE IF RetriesRemain(n, retry) THEN Continue
                   ELSE Blocked(FALSE)
         ELSE IF RetriesRemain(n, retry) THEN Continue
              ELSE IF o.timeout THEN Blocked(EarlyOf(o))
                   ELSE Err(o)

(***************************************************************************)
(* Counter (reporter/src/counter.rs).                                      *)
(***************************************************************************)
EmptyMap == [x \in {} |-> None]
MapInsert(m, k, v) == [x \in DOMAIN m \cup {k} |-> IF x = k THEN v ELSE m[x]]

CounterDefault == [ok |-> 0, block |-> 0, err |-> 0, early |-> 0, results |-> EmptyMap]

CounterAdd_ConnectErrorsUncounted(c, target, evidence) ==
    LET c1 == CASE evidence = "Ok" -> [c EXCEPT !.ok = @ + 1]
                [] evidence = "Blocked" -> [c EXCEPT !.block = @ + 1]
                [] evidence = "Error" -> [c EXCEPT !.err = @ + 1]
                [] OTHER -> c
    IN  [c1 EXCEPT !.results = MapInsert(@, target, evidence)]
\* Counter::add
CounterAdd(c, target, evidence) ==
    LET c1 == CASE evidence = "Ok" -> [c EXCEPT !.ok = @ + 1]
                [] evidence = "Blocked" -> [c EXCEPT !.block = @ + 1]
                [] OTHER -> [c EXCEPT !.err = @ + 1]
    IN  [c1 EXCEPT !.results = MapInsert(@, target, evidence)]

\* Counter::total
CounterTotal(c) == c.ok + c.block + c.err

(***************************************************************************)
(* The parts a specification leaves alone stay as constructed.             *)
(***************************************************************************)
\* IpnetTrie::new
EmptyTrie == [n \in {} |-> None]

NoReport == [file |-> <<>>, uploads |-> 0, sent |-> <<>>]

InitIdleProber ==
    /\ probe_count = 0
    /\ targets = <<>>
    /\ mainPc = "idle"
    /\ pos = 1
    /\ sem = 0
    /\ cancelled = 0
    /\ task = <<>>
    /\ futs = {}
    /\ counter = CounterDefault
    /\ exitCode = <<>>
    /\ report = NoReport

RuNew == [ip_trie |-> EmptyTrie, domain_trie |-> EmptyTrie, domain_count |-> 0]

InitIdleLists ==
    /\ cdn_list = EmptyTrie
    /\ ru_blacklist = RuNew
    /\ listInput = <<>>
    /\ listLoaded = FALSE
    /\ listAnswer = <<>>

\* No client is built and nothing is resolved.
InitIdleClient ==
    /\ timeout_secs = 0
    /\ args_ip = <<>>
    /\ built = <<>>
    /\ resolved = <<>>

InitIdleProbe ==
    /\ retry_count = 0
    /\ attempts = 0
    /\ history = <<>>
    /\ verdict = Pending
    /\ InitIdleClient

Datasets == {"geo", "ru", "cdn"}

\* GeoIp::new
GeoNew == [asn |-> "none", country |-> "none", city |-> "none"]

\* RwLock::new
LockNew == [readers |-> 0, writer |-> FALSE, waiting |-> FALSE]

NoTarget == [kind |-> "none", name |-> <<>>, addr |-> <<>>]
NoLookup == [k |-> "none", ips |-> <<>>, e |-> None]
NoResult == [k |-> "none"]

NoCheck ==
    [pc |-> "idle", target |-> NoTarget, raw |-> NoLookup, ips |-> <<>>, geo |-> <<>>,
     cdn |-> EmptyMap, domain |-> <<>>, subnets |-> {}, result |-> NoResult]

Readers == 1..MaxReaders
Checks == 1..MaxChecks
NotCalled == [called |-> FALSE, value |-> <<>>]
NoTotal == [pc |-> "idle", cdn |-> 0, ru |-> 0, result |-> <<>>]

\* Checker::new
InitCheckerNew ==
    /\ geo_ip = GeoNew
    /\ lock = [d \in Datasets |-> LockNew]
    /\ last_update = <<>>
    /\ cycles = 0
    /\ upd = [pc |-> "idle", ds |-> "none", base |-> <<>>, failed |-> {}]
    /\ chk = NoCheck
    /\ observed = [r \in Readers |-> NotCalled]
    /\ peers = [c \in Checks |-> "idle"]
    /\ totals = NoTotal

InitIdleChecker ==
    /\ InitCheckerNew
    /\ geoReads = <<>>
    /\ geoInfo = <<>>

(***************************************************************************)
(* The passive classifier (src/lists.rs).  An address is a family and      *)
(* AddrBits bits; a network is a family and a prefix of at most AddrBits   *)
(* bits (a CIDR block whose host bits are zero).  A trie is the map its    *)
(* inserts built; a lookup walks it as the trie does.                      *)
(***************************************************************************)
Families == {4, 6}
Bit == {0, 1}
Addrs == {[fam |-> f, bits |-> b] : f \in Families, b \in [1..AddrBits -> Bit]}
Nets == {[fam |-> f, bits |-> b] : f \in Families, b \in UNION {[1..k -> Bit] : k \in 0..AddrBits}}

\* A line or row the parser rejects (a malformed CIDR, invalid UTF-8).
BadLine == [bad |-> TRUE]

\* IpnetTrie::insert: a later insert of the same network replaces the value.
TrieInsert(trie, net, val) ==
    [n \in DOMAIN trie \cup {net} |-> IF n = net THEN val ELSE trie[n]]

\* IpNet::from(ip) restricted to its first k bits.
PrefixOf(a, k) == [fam |-> a.fam, bits |-> SubSeq(a.bits, 1, k)]

\* IpnetTrie::longest_match: walk the address bits from the root, remember
\* the last stored network passed.  <<>> is no match, else <<net, value>>.
RECURSIVE MatchWalk(_, _, _, _)
MatchWalk(trie, a, k, best) ==
    LET here == PrefixOf(a, k)
        now == IF here \in DOMAIN trie THEN <<here, trie[here]>> ELSE best
    IN  IF k = Len(a.bits) THEN now ELSE MatchWalk(trie, a, k + 1, now)

LongestMatch_FirstFound(trie, a) ==
    LET hit == {k \in 0..Len(a.bits) : PrefixOf(a, k) \in DOMAIN trie}
    IN  IF hit = {} THEN <<>>
        ELSE LET k == CHOOSE x \in hit : \A y \in hit : x <= y
             IN  <<PrefixOf(a, k), trie[PrefixOf(a, k)]>>
LongestMatch(trie, a) == MatchWalk(trie, a, 0, <<>>)

\* CdnList::new
CdnNew == EmptyTrie

\* CdnList::update: every row is deserialized and inserted into a fresh trie;
\* the first bad row returns the error and leaves self.trie as it was.
RECURSIVE CdnBuild(_, _)
CdnBuild(rows, trie) ==
    IF rows = <<>> THEN [ok |-> TRUE, trie |-> trie]
    ELSE IF Head(rows) = BadLine THEN [ok |-> FALSE, trie |-> trie]
    ELSE CdnBuild(Tail(rows), TrieInsert(trie, Head(rows).cidr, Head(rows)))

CdnUpdate(self, rows) ==
    LET b == CdnBuild(rows, EmptyTrie)
    IN  IF b.ok THEN [ok |-> TRUE, self |-> b.trie] ELSE [ok |-> FALSE, self |-> self]

\* CdnList::contains: None or the matched NetworkRecord.
CdnContains(self, ip) ==
    LET m == LongestMatch(self, ip)
    IN  IF m = <<>> THEN <<>> ELSE <<m[2]>>

(***************************************************************************)
(* CdnList run alone: update on drawn rows, then lookups.                  *)
(***************************************************************************)
NetworkRecords ==
    {[provider |-> "P", cidr |-> n, region |-> <<>>] : n \in Nets}
    \cup {[provider |-> "Q", cidr |-> n, region |-> <<"eu">>] : n \in Nets}

SeqsUpTo(S, n) == UNION {[1..k -> S] : k \in 0..n}

\* A list that was loaded before: everything of both families.
CdnOld ==
    CdnBuild(<<[provider |-> "Old", cidr |-> [fam |-> 4, bits |-> <<>>], region |-> <<>>],
               [provider |-> "Old", cidr |-> [fam |-> 6, bits |-> <<>>], region |-> <<>>]>>,
             EmptyTrie).trie

InitCdn ==
    /\ cdn_list \in {CdnNew, CdnOld}
    /\ listInput \in SeqsUpTo(NetworkRecords \cup {BadLine}, MaxRows)
    /\ listLoaded = FALSE
    /\ listAnswer = <<>>
    /\ ru_blacklist = RuNew
    /\ InitIdleChecker
    /\ InitIdleProber
    /\ InitIdleProbe

\* CdnList::update(listInput) returns.
CdnListUpdate ==
    /\ ~listLoaded
    /\ listAnswer = <<>>
    /\ LET r == CdnUpdate(cdn_list, listInput)
       IN  /\ cdn_list' = r.self
           /\ listLoaded' = r.ok
           /\ listAnswer' = IF r.ok THEN <<>> ELSE <<"Err">>
    /\ UNCHANGED <<ru_blacklist, listInput, retry_count, proberVars, probeVars, checkerVars>>

\* CdnList::contains(a) after a successful update.
CdnListContains(a) ==
    /\ listLoaded
    /\ listAnswer = <<>>
    /\ listAnswer' = <<a, CdnContains(cdn_list, a)>>
    /\ UNCHANGED <<cdn_list, ru_blacklist, listInput, listLoaded, retry_count,
                   proberVars, probeVars, checkerVars>>

NextCdn ==
    \/ CdnListUpdate
    \/ \E a \in Addrs : CdnListContains(a)

SpecCdn == InitCdn /\ [][NextCdn]_vars

(***************************************************************************)
(* RuBlacklist (src/lists.rs).  A domain is a string: a sequence of        *)
(* characters, "." among them.                                             *)
(***************************************************************************)
Chars == {"a", "."}
DomainStrings == SeqsUpTo(Chars, MaxDomainLen)

\* A line that is not valid UTF-8: BufRead::lines yields an error for it.
BadDomainLine == <<"\\xFF">>
IsUtf8(line) == \A i \in 1..Len(line) : line[i] \in Chars

\* str::split("."): the pieces between the dots; "" splits into one empty piece.
RECURSIVE SplitDot(_)
SplitDot(d) ==
    IF d = <<>> THEN << <<>> >>
    ELSE LET rest == SplitDot(Tail(d))
         IN  IF Head(d) = "." THEN << <<>> >> \o rest
             ELSE << <<Head(d)>> \o Head(rest) >> \o Tail(rest)

\* Iterator::rev().collect()
Reverse(q) == [i \in 1..Len(q) |-> q[Len(q) + 1 - i]]

DomainChunks_NotReversed(domain) == SplitDot(domain)
\* RuBlacklist::domain_chunks
DomainChunks(domain) == Reverse(SplitDot(domain))

\* The first stage of RuBlacklist::update: the networks are parsed into a fresh
\* trie, which replaces self.ip_trie when every line parsed.
RECURSIVE IpBuild(_, _)
IpBuild(lines, trie) ==
    IF lines = <<>> THEN [ok |-> TRUE, trie |-> trie]
    ELSE IF Head(lines) = BadLine THEN [ok |-> FALSE, trie |-> trie]
    ELSE IpBuild(Tail(lines), TrieInsert(trie, Head(lines), <<>>))

RuUpdateIps(self, ip_lines) ==
    LET b == IpBuild(ip_lines, EmptyTrie)
    IN  IF b.ok THEN [ok |-> TRUE, self |-> [self EXCEPT !.ip_trie = b.trie]]
        ELSE [ok |-> FALSE, self |-> self]

\* The second stage: the domains are inserted into a fresh TrieBuilder under
\* their chunks and counted; count and trie replace the old ones when every
\* line was read.
RECURSIVE DomainBuild(_, _, _)
DomainBuild(lines, trie, count) ==
    IF lines = <<>> THEN [ok |-> TRUE, trie |-> trie, count |-> count]
    ELSE IF ~IsUtf8(Head(lines)) THEN [ok |-> FALSE, trie |-> trie, count |-> count]
    ELSE DomainBuild(Tail(lines), TrieInsert(trie, DomainChunks(Head(lines)), Head(lines)),
                     count + 1)

RuUpdateDomains(self, domain_lines) ==
    LET b == DomainBuild(domain_lines, EmptyTrie, 0)
    IN  IF b.ok
        THEN [ok |-> TRUE,
              self |-> [self EXCEPT !.domain_count = b.count, !.domain_trie = b.trie]]
        ELSE [ok |-> FALSE, self |-> self]

\* RuBlacklist::update
RuUpdate(self, ip_lines, domain_lines) ==
    LET s1 == RuUpdateIps(self, ip_lines)
    IN  IF s1.ok THEN RuUpdateDomains(s1.self, domain_lines) ELSE s1

\* RuBlacklist::contains_ip: None or the matched network.
ContainsIp(self, ip) ==
    LET m == LongestMatch(self.ip_trie, ip)
    IN  IF m = <<>> THEN <<>> ELSE <<m[1]>>

\* Trie::common_prefix_search(chunks).next(): the walk along the query yields
\* the stored keys that are prefixes of it, shortest first.
RECURSIVE CommonPrefixFirst(_, _, _)
CommonPrefixFirst(trie, chunks, k) ==
    IF k > Len(chunks) THEN <<>>
    ELSE IF SubSeq(chunks, 1, k) \in DOMAIN trie THEN <<trie[SubSeq(chunks, 1, k)]>>
    ELSE CommonPrefixFirst(trie, chunks, k + 1)

\* RuBlacklist::contains_domain: None or the value stored with the match.
ContainsDomain(self, domain) ==
    CommonPrefixFirst(self.domain_trie, DomainChunks(domain), 1)

(***************************************************************************)
(* RuBlacklist run alone: update on drawn lines, then lookups.             *)
(***************************************************************************)
\* A blacklist that was loaded before.
RuOld ==
    RuUpdate(RuNew, <<[fam |-> 4, bits |-> <<>>]>>, << <<"a">>, <<"a", "a">> >>).self

IpLinesTried == {<<[fam |-> 4, bits |-> <<1>>]>>, <<BadLine>>}

InitRu ==
    /\ ru_blacklist \in {RuNew, RuOld}
    /\ listInput \in {[ips |-> i, domains |-> d] :
                          i \in IpLinesTried,
                          d \in SeqsUpTo(DomainStrings \cup {BadDomainLine}, MaxRows)}
    /\ listLoaded = FALSE
    /\ listAnswer = <<>>
    /\ cdn_list = CdnNew
    /\ InitIdleChecker
    /\ InitIdleProber
    /\ InitIdleProbe

\* RuBlacklist::update(listInput) returns.
RuListUpdate ==
    /\ ~listLoaded
    /\ listAnswer = <<>>
    /\ LET r == RuUpdate(ru_blacklist, listInput.ips, listInput.domains)
       IN  /\ ru_blacklist' = r.self
           /\ listLoaded' = r.ok
           /\ listAnswer' = IF r.ok THEN <<>> ELSE <<"Err">>
    /\ UNCHANGED <<cdn_list, listInput, retry_count, proberVars, probeVars, checkerVars>>

\* RuBlacklist::contains_domain(d) after a successful update.
RuListContainsDomain(d) ==
    /\ listLoaded
    /\ listAnswer = <<>>
    /\ listAnswer' = <<d, ContainsDomain(ru_blacklist, d)>>
    /\ UNCHANGED <<cdn_list, ru_blacklist, listInput, listLoaded, retry_count,
                   proberVars, probeVars, checkerVars>>

NextRu ==
    \/ RuListUpdate
    \/ \E d \in DomainStrings : RuListContainsDomain(d)

SpecRu == InitRu /\ [][NextRu]_vars

(***************************************************************************)
(* GeoIp (querying/src/geoip.rs), as far as check and update_all use it.   *)
(* A database file is "v1" or "v2" (readable), "broken" (it loads, its     *)
(* lookups fail) or "invalid" (Reader::from_source rejects it).            *)
(***************************************************************************)
\* GeoIp::update: the three readers are replaced one after the other; the
\* first rejected file returns the error.
GeoUpdate(self, base) ==
    IF base.asn = "invalid" THEN [ok |-> FALSE, self |-> self]
    ELSE LET s1 == [self EXCEPT !.asn = base.asn]
         IN  IF base.country = "invalid" THEN [ok |-> FALSE, self |-> s1]
             ELSE LET s2 == [s1 EXCEPT !.country = base.country]
                  IN  IF base.city = "invalid" THEN [ok |-> FALSE, self |-> s2]
                      ELSE [ok |-> TRUE, self |-> [s2 EXCEPT !.city = base.city]]

\* The locale of the names lookup shows.
DisplayLocale == "ru"

\* IpInfo::default
IpInfoDefault ==
    [asn |-> <<>>, country_code |-> <<>>, organisation |-> <<>>,
     city_geo_name_id |-> <<>>, location |-> <<"-">>]

\* What one of the three readers answers a lookup: the reader is None
\* ("absent"), db.lookup is Err ("err"), or it is Ok(rec), rec being <<>>
\* (no record for the address) or <<the record>>.
Absent == [k |-> "absent", rec |-> <<>>]
ReadError == [k |-> "err", rec |-> <<>>]
Found(rec) == [k |-> "ok", rec |-> rec]

\* `if let Some(db) = &self.x { db.lookup(ip)? } else { None }`
RecordOf(read) == IF read.k = "ok" THEN read.rec ELSE <<>>

\* names.get("ru").unwrap_or(&"-")
NameIn(names) == IF DisplayLocale \in DOMAIN names THEN names[DisplayLocale] ELSE "-"

\* The match on (city, country) that makes the location string; the string
\* is the sequence of its parts.
LocationOf(city, country) ==
    IF /\ city # <<>>
       /\ city[1].city # <<>> /\ city[1].city[1].names # <<>>
       /\ city[1].country # <<>> /\ city[1].country[1].names # <<>>
    THEN <<NameIn(city[1].city[1].names[1]), ", ", NameIn(city[1].country[1].names[1])>>
    ELSE IF country # <<>> /\ country[1].country # <<>> /\ country[1].country[1].names # <<>>
         THEN <<NameIn(country[1].country[1].names[1])>>
         ELSE <<"-">>

\* The IpInfo lookup builds from the three records.
IpInfoOf(asn, city, country) ==
    [asn |-> IF asn # <<>> /\ asn[1].number # <<>> THEN <<"AS", asn[1].number[1]>> ELSE <<>>,
     organisation |-> IF asn # <<>> THEN asn[1].org ELSE <<>>,
     country_code |-> IF country # <<>> /\ country[1].country # <<>>
                      THEN country[1].country[1].iso_code ELSE <<>>,
     city_geo_name_id |-> IF city # <<>> /\ city[1].city # <<>>
                          THEN city[1].city[1].geoname_id ELSE <<>>,
     location |-> LocationOf(city, country)]

GeoIpLookup_NeedsDatabases(reads) ==
    IF \E d \in DOMAIN reads : reads[d].k \in {"err", "absent"}
    THEN [ok |-> FALSE, info |-> IpInfoDefault]
    ELSE [ok |-> TRUE,
          info |-> IpInfoOf(RecordOf(reads.asn), RecordOf(reads.city), RecordOf(reads.country))]
\* GeoIp::lookup, given what the three readers answer: the first Err is
\* returned by `?`; a reader that is None contributes nothing.
GeoIpLookup(reads) ==
    IF \E d \in DOMAIN reads : reads[d].k = "err"
    THEN [ok |-> FALSE, info |-> IpInfoDefault]
    ELSE [ok |-> TRUE,
          info |-> IpInfoOf(RecordOf(reads.asn), RecordOf(reads.city), RecordOf(reads.country))]

\* The names of a place in the databases tried.
BothNames(name) == [l \in {"en", "ru"} |-> IF l = "ru" THEN name ELSE "en"]

\* The record database `db` of kind `kind` holds for ip.  "v1" holds IPv4
\* addresses only; "v2" holds every address.  The AS number and the city id
\* stand for the address they belong to.
DbRecord(db, kind, ip) ==
    CASE kind = "asn" -> [number |-> <<ip>>, org |-> <<db>>]
      [] kind = "city" ->
           [city |-> <<[names |-> <<BothNames("city")>>, geoname_id |-> <<ip>>]>>,
            country |-> <<[names |-> <<BothNames("country")>>, iso_code |-> <<"RU">>]>>]
      [] OTHER -> [country |-> <<[names |-> <<BothNames("country")>>, iso_code |-> <<"RU">>]>>]

DbRead_NoRecordIsAnError(db, kind, ip) ==
    CASE db = "none" -> Absent
      [] db = "broken" -> ReadError
      [] db = "v1" /\ ip.fam = 6 -> ReadError
      [] OTHER -> Found(<<DbRecord(db, kind, ip)>>)
\* db.lookup(ip) on a reader of self.
DbRead(db, kind, ip) ==
    CASE db = "none" -> Absent
      [] db = "broken" -> ReadError
      [] db = "v1" /\ ip.fam = 6 -> Found(<<>>)
      [] OTHER -> Found(<<DbRecord(db, kind, ip)>>)

\* What the three readers of self answer for ip.
ReadsOf(self, ip) ==
    [asn |-> DbRead(self.asn, "asn", ip),
     city |-> DbRead(self.city, "city", ip),
     country |-> DbRead(self.country, "country", ip)]

GeoLookup_NeedsDatabases(self, ip) == GeoIpLookup_NeedsDatabases(ReadsOf(self, ip))
\* GeoIp::lookup(ip) on self: a loaded database that cannot be read fails the
\* lookup; an absent one contributes nothing.
GeoLookup(self, ip) == GeoIpLookup(ReadsOf(self, ip))

(***************************************************************************)
(* GeoIp::lookup run alone, on drawn answers of the three readers.         *)
(***************************************************************************)
\* Option<BTreeMap<&str, &str>>: None, no name at all, an English name only,
\* or a name in both locales.
NamesOf(name) ==
    {<<>>, <<[l \in {} |-> name]>>, <<[l \in {"en"} |-> "en"]>>, <<BothNames(name)>>}

AsnRecords == {[number |-> n, org |-> o] : n \in {<<>>, <<1>>}, o \in {<<>>, <<"org">>}}

CityRecords ==
    {[city |-> c, country |-> k] :
        c \in {<<>>} \cup {<<[names |-> n, geoname_id |-> g]>> :
                               n \in NamesOf("city"), g \in {<<>>, <<1>>}},
        k \in {<<>>} \cup {<<[names |-> n, iso_code |-> <<"RU">>]>> : n \in NamesOf("country")}}

CountryRecords ==
    {[country |-> k] :
        k \in {<<>>} \cup {<<[names |-> n, iso_code |-> i]>> :
                               n \in NamesOf("country"), i \in {<<>>, <<"RU">>}}}

ReadsFrom(records) == {Absent, ReadError, Found(<<>>)} \cup {Found(<<r>>) : r \in records}

GeoReads ==
    [asn : ReadsFrom(AsnRecords), city : ReadsFrom(CityRecords),
     country : ReadsFrom(CountryRecords)]

InitGeo ==
    /\ geoReads \in GeoReads
    /\ geoInfo = <<>>
    /\ InitCheckerNew
    /\ InitIdleLists
    /\ InitIdleProber
    /\ InitIdleProbe

\* GeoIp::lookup(ip) returns.
GeoIpLookupReturns ==
    /\ geoInfo = <<>>
    /\ geoInfo' = <<GeoIpLookup(geoReads)>>
    /\ UNCHANGED <<geoReads, geo_ip, lock, last_update, cycles, upd, chk, observed, peers, totals,
                   retry_count, proberVars, probeVars, listVars>>

NextGeo == GeoIpLookupReturns

SpecGeo == InitGeo /\ [][NextGeo]_vars

(***************************************************************************)
(* Resolver and Target (querying/src/resolver.rs, src/target.rs).          *)
(***************************************************************************)
\* Resolver::lookup_ips: what the hickory lookup gave, mapped to ResolveError.
LookupIps_NoNxDomain(raw) ==
    IF raw.k = "ok" THEN [k |-> "Ok", ips |-> raw.ips, e |-> None]
    ELSE [k |-> "Other", ips |-> <<>>, e |-> raw.e]
LookupIps(raw) ==
    IF raw.k = "ok" THEN [k |-> "Ok", ips |-> raw.ips, e |-> None]
    ELSE IF raw.k = "no_records" THEN [k |-> "NxDomain", ips |-> <<>>, e |-> None]
    ELSE [k |-> "Other", ips |-> <<>>, e |-> raw.e]

TargetResolve_NoRecordsIsEmpty(target, raw) ==
    IF target.kind = "Domain"
    THEN IF raw.k = "no_records" THEN [k |-> "Ok", ips |-> <<>>, e |-> None] ELSE LookupIps(raw)
    ELSE [k |-> "Ok", ips |-> <<target.addr>>, e |-> None]
\* Target::resolve
TargetResolve(target, raw) ==
    IF target.kind = "Domain" THEN LookupIps(raw)
    ELSE [k |-> "Ok", ips |-> <<target.addr>>, e |-> None]

(***************************************************************************)
(* Checker (querying/src/lib.rs).                                          *)
(***************************************************************************)
\* The key of cdn_provider_subnets: "{provider}" or "{provider} ({region})".
ProviderLabel(rec) ==
    IF rec.region = <<>> THEN <<rec.provider>>
    ELSE <<rec.provider, " (", rec.region[1], ")">>

\* The map check builds from cdn_list.contains over all resolved addresses.
CdnProviderSubnets(cdnl, ips) ==
    LET hits == {CdnContains(cdnl, ips[i])[1] :
                    i \in {j \in 1..Len(ips) : CdnContains(cdnl, ips[j]) # <<>>}}
    IN  [l \in {ProviderLabel(r) : r \in hits} |-> {r \in hits : ProviderLabel(r) = l}]

RknSubnets_FirstAddressOnly(ru, ips) ==
    {ContainsIp(ru, ips[i])[1] : i \in {j \in 1..Len(ips) : j = 1 /\ ContainsIp(ru, ips[j]) # <<>>}}
\* The set check collects from ru_blacklist.contains_ip over all addresses.
RknSubnets(ru, ips) ==
    {ContainsIp(ru, ips[i])[1] : i \in {j \in 1..Len(ips) : ContainsIp(ru, ips[j]) # <<>>}}

\* Target::to_query: the text of a target; for an address its groups, "a"
\* standing for a group of digits, separated by "." (IPv4) or not by a dot.
ToQuery(target) ==
    CASE target.kind = "Domain" -> target.name
      [] target.kind = "Ipv4" ->
           [i \in 1..(2 * Len(target.addr.bits) - 1) |-> IF i % 2 = 0 THEN "." ELSE "a"]
      [] OTHER -> [i \in 1..Len(target.addr.bits) |-> "a"]

RknDomain_AnyTarget(ru, target) == ContainsDomain(ru, ToQuery(target))
\* The domain blacklist is asked for Domain targets only.
RknDomain(ru, target) ==
    IF target.kind = "Domain" THEN ContainsDomain(ru, target.name) ELSE <<>>

Clear ==
    [clear |-> TRUE, rkn_domain |-> <<>>, rkn_subnets |-> {}, cdn_provider_subnets |-> EmptyMap]

VerdictOf_IgnoresCdn(domain, cdn, subnets) ==
    IF domain = <<>> /\ subnets = {} THEN Clear
    ELSE [clear |-> FALSE, rkn_domain |-> domain, rkn_subnets |-> subnets,
          cdn_provider_subnets |-> cdn]
\* match (domain, cdn_provider_subnets.is_empty(), rkn_subnets.is_empty())
VerdictOf(domain, cdn, subnets) ==
    IF domain = <<>> /\ DOMAIN cdn = {} /\ subnets = {} THEN Clear
    ELSE [clear |-> FALSE, rkn_domain |-> domain, rkn_subnets |-> subnets,
          cdn_provider_subnets |-> cdn]

CanRead_PastQueuedWriter(l) == ~l.writer
\* RwLock::read resolves when no writer holds the lock or queues for it.
CanRead(l) == ~l.writer /\ ~l.waiting
\* RwLock::write resolves when nobody holds the lock.
CanWrite(l) == l.readers = 0 /\ ~l.writer

ReadLocked(l) == [l EXCEPT !.readers = @ + 1]
ReadUnlocked(l) == [l EXCEPT !.readers = @ - 1]

(* The inputs tried. *)
Net(f, b) == [fam |-> f, bits |-> b]
A4a == [fam |-> 4, bits |-> [i \in 1..AddrBits |-> 0]]
A4b == [fam |-> 4, bits |-> [i \in 1..AddrBits |-> 1]]
A4c == [fam |-> 4, bits |-> [i \in 1..AddrBits |-> IF i = AddrBits THEN 1 ELSE 0]]
A6a == [fam |-> 6, bits |-> [i \in 1..AddrBits |-> 0]]

CheckTargets ==
    {[kind |-> "Domain", name |-> <<"a", ".", "a">>, addr |-> A4a],
     [kind |-> "Domain", name |-> <<"a", "a">>, addr |-> A4a],
     [kind |-> "Ipv4", name |-> <<>>, addr |-> A4a],
     [kind |-> "Ipv6", name |-> <<>>, addr |-> A6a]}

ResolvedLists == {<<>>, <<A4a>>, <<A4b>>, <<A4b, A4a>>, <<A6a>>, <<A4a, A6a>>, <<A4a, A4c>>}

RawLookups ==
    {[k |-> "no_records", ips |-> <<>>, e |-> None]}
    \cup {[k |-> "proto_err", ips |-> <<>>, e |-> e] : e \in {"timeout", "refused"}}
    \cup {[k |-> "ok", ips |-> l, e |-> None] : l \in ResolvedLists}

RawFor(target) == IF target.kind = "Domain" THEN RawLookups ELSE {NoLookup}

CdnFiles ==
    {<<[provider |-> "P", cidr |-> Net(4, <<0>>), region |-> <<>>],
       [provider |-> "Q", cidr |-> Net(4, <<0, 0>>), region |-> <<"eu">>]>>,
     <<[provider |-> "P", cidr |-> Net(6, <<>>), region |-> <<>>]>>,
     <<[provider |-> "Q", cidr |-> Net(4, <<1>>), region |-> <<"eu">>], BadLine>>}

RuFiles ==
    {[ips |-> <<Net(4, <<0>>)>>, domains |-> << <<"a">> >>],
     [ips |-> <<Net(6, <<0>>)>>, domains |-> << <<"a", "a">>, <<"a", ".", "a">> >>],
     [ips |-> <<Net(4, <<1>>)>>, domains |-> << <<"a">>, BadDomainLine >>],
     [ips |-> <<BadLine>>, domains |-> << <<"a">> >>]}

GeoFiles ==
    {[asn |-> "v1", country |-> "v1", city |-> "v1"],
     [asn |-> "v2", country |-> "invalid", city |-> "v2"],
     [asn |-> "broken", country |-> "v1", city |-> "v1"]}

FilesOf(ds) ==
    CASE ds = "geo" -> GeoFiles
      [] ds = "ru" -> RuFiles
      [] ds = "cdn" -> CdnFiles
      [] OTHER -> {}

InitChecker ==
    /\ InitIdleChecker
    /\ InitIdleLists
    /\ InitIdleProber
    /\ InitIdleProbe

checkerFrame ==
    <<retry_count, proberVars, probeVars, listInput, listLoaded, listAnswer, observed,
      peers, totals, geoReads, geoInfo>>

(* Checker::check, one action per await point. *)
ChkStart(t) ==
    /\ chk.pc \in {"idle", "done"}
    /\ chk' = [NoCheck EXCEPT !.pc = "resolve", !.target = t]
    /\ UNCHANGED <<cdn_list, ru_blacklist, geo_ip, lock, last_update, cycles, upd,
                   checkerFrame>>

\* target.resolve(&self.resolver).await and the match on its result.
ChkResolve(raw) ==
    /\ chk.pc = "resolve"
    /\ LET r == TargetResolve(chk.target, raw)
       IN  chk' = CASE r.k = "Ok" -> [chk EXCEPT !.pc = "geo", !.raw = raw, !.ips = r.ips]
                    [] r.k = "NxDomain" ->
                         [chk EXCEPT !.pc = "done", !.raw = raw,
                                     !.result = [k |-> "Err", err |-> "NotFound", e |-> None]]
                    [] OTHER ->
                         [chk EXCEPT !.pc = "done", !.raw = raw,
                                     !.result = [k |-> "Err", err |-> "ResolveError", e |-> r.e]]
    /\ UNCHANGED <<cdn_list, ru_blacklist, geo_ip, lock, last_update, cycles, upd,
                   checkerFrame>>

FirstAddress_Last(ips) == IF ips = <<>> THEN <<>> ELSE <<ips[Len(ips)]>>
\* ips.get(0)
FirstAddress(ips) == IF ips = <<>> THEN <<>> ELSE <<ips[1]>>

\* self.geo_ip.read().await, then the lookup of ips.get(0); a failed lookup
\* returns GeoIpError and drops the guard.
ChkGeo ==
    /\ chk.pc = "geo"
    /\ CanRead(lock["geo"])
    /\ LET first == FirstAddress(chk.ips)
           g == IF first = <<>> THEN [ok |-> TRUE, info |-> IpInfoDefault]
                ELSE GeoLookup(geo_ip, first[1])
       IN  IF g.ok
           THEN /\ chk' = [chk EXCEPT !.pc = "cdn", !.geo = <<g.info>>]
                /\ lock' = [lock EXCEPT !["geo"] = ReadLocked(@)]
           ELSE /\ chk' = [chk EXCEPT !.pc = "done",
                                      !.result = [k |-> "Err", err |-> "GeoIpError", e |-> None]]
                /\ lock' = lock
    /\ UNCHANGED <<cdn_list, ru_blacklist, geo_ip, last_update, cycles, upd, checkerFrame>>

\* self.cdn_list.read().await, then the CDN matches of every address.
ChkCdn ==
    /\ chk.pc = "cdn"
    /\ CanRead(lock["cdn"])
    /\ lock' = [lock EXCEPT !["cdn"] = ReadLocked(@)]
    /\ chk' = [chk EXCEPT !.pc = "ru", !.cdn = CdnProviderSubnets(cdn_list, chk.ips)]
    /\ UNCHANGED <<cdn_list, ru_blacklist, geo_ip, last_update, cycles, upd, checkerFrame>>

\* self.ru_blacklist.read().await, then the domain and subnet matches and the
\* Check that is returned.
ChkRu ==
    /\ chk.pc = "ru"
    /\ CanRead(lock["ru"])
    /\ lock' = [lock EXCEPT !["ru"] = ReadLocked(@)]
    /\ LET domain == RknDomain(ru_blacklist, chk.target)
           subnets == RknSubnets(ru_blacklist, chk.ips)
       IN  chk' = [chk EXCEPT !.pc = "return", !.domain = domain, !.subnets = subnets,
                              !.result = [k |-> "Ok",
                                          verdict |-> VerdictOf(domain, chk.cdn, subnets),
                                          geo |-> chk.geo[1], ips |-> chk.ips]]
    /\ UNCHANGED <<cdn_list, ru_blacklist, geo_ip, last_update, cycles, upd, checkerFrame>>

\* check returns Ok(Check): the three read guards are dropped.
ChkReturn ==
    /\ chk.pc = "return"
    /\ lock' = [d \in Datasets |-> ReadUnlocked(lock[d])]
    /\ chk' = [chk EXCEPT !.pc = "done"]
    /\ UNCHANGED <<cdn_list, ru_blacklist, geo_ip, last_update, cycles, upd, checkerFrame>>

(* Checker::update_all: GeoIP, then RuBlacklist, then CdnList, then the send. *)
AfterDataset_StopsAtFailure(u) ==
    IF u.ds \in u.failed \/ u.ds = "cdn"
    THEN [u EXCEPT !.pc = "publish", !.ds = "none", !.base = <<>>]
    ELSE [u EXCEPT !.pc = "dl", !.ds = IF u.ds = "geo" THEN "ru" ELSE "cdn", !.base = <<>>]
AfterDataset_CdnBeforeRu(u) ==
    CASE u.ds = "geo" -> [u EXCEPT !.pc = "dl", !.ds = "cdn", !.base = <<>>]
      [] u.ds = "cdn" -> [u EXCEPT !.pc = "dl", !.ds = "ru", !.base = <<>>]
      [] u.ds = "ru" -> [u EXCEPT !.pc = "publish", !.ds = "none", !.base = <<>>]
\* Whether the match on a dataset logged an error or not, update_all goes on
\* to the next match, and after the last to the send.
AfterDataset(u) ==
    CASE u.ds = "geo" -> [u EXCEPT !.pc = "dl", !.ds = "ru", !.base = <<>>]
      [] u.ds = "ru" -> [u EXCEPT !.pc = "dl", !.ds = "cdn", !.base = <<>>]
      [] u.ds = "cdn" -> [u EXCEPT !.pc = "publish", !.ds = "none", !.base = <<>>]

\* error!("Failed to ...") for the dataset update_all is at.
Logged(u, failure) == IF failure THEN [u EXCEPT !.failed = @ \cup {u.ds}] ELSE u

\* The refresh timer calls update_all.
UpdStart ==
    /\ upd.pc = "idle"
    /\ cycles < MaxCycles
    /\ cycles' = cycles + 1
    /\ upd' = [pc |-> "dl", ds |-> "geo", base |-> <<>>, failed |-> {}]
    /\ UNCHANGED <<cdn_list, ru_blacklist, geo_ip, lock, last_update, chk, checkerFrame>>

\* download().await is Err: logged, on to the next dataset.
UpdDownloadFails ==
    /\ upd.pc = "dl"
    /\ upd' = AfterDataset(Logged(upd, TRUE))
    /\ UNCHANGED <<cdn_list, ru_blacklist, geo_ip, lock, last_update, cycles, chk,
                   checkerFrame>>

\* download().await is Ok(base): write() queues for the dataset's lock.
UpdDownloaded(base) ==
    /\ upd.pc = "dl"
    /\ upd' = [upd EXCEPT !.pc = "req", !.base = base]
    /\ lock' = [lock EXCEPT ![upd.ds].waiting = TRUE]
    /\ UNCHANGED <<cdn_list, ru_blacklist, geo_ip, last_update, cycles, chk, checkerFrame>>

\* write().await resolves.
UpdWriteLocked ==
    /\ upd.pc = "req"
    /\ CanWrite(lock[upd.ds])
    /\ lock' = [lock EXCEPT ![upd.ds] = [@ EXCEPT !.writer = TRUE, !.waiting = FALSE]]
    /\ upd' = [upd EXCEPT !.pc = "install"]
    /\ UNCHANGED <<cdn_list, ru_blacklist, geo_ip, last_update, cycles, chk, checkerFrame>>

\* GeoIp::install under the write lock.
UpdInstallGeo ==
    /\ upd.pc = "install" /\ upd.ds = "geo"
    /\ LET r == GeoUpdate(geo_ip, upd.base)
       IN  /\ geo_ip' = r.self
           /\ upd' = [Logged(upd, ~r.ok) EXCEPT !.pc = "release"]
    /\ UNCHANGED <<cdn_list, ru_blacklist, lock, last_update, cycles, chk, checkerFrame>>

\* RuBlacklist::install under the write lock, up to self.ip_trie = ip_trie.
UpdInstallRuIps ==
    /\ upd.pc = "install" /\ upd.ds = "ru"
    /\ LET r == RuUpdateIps(ru_blacklist, upd.base.ips)
       IN  /\ ru_blacklist' = r.self
           /\ upd' = [Logged(upd, ~r.ok) EXCEPT !.pc = IF r.ok THEN "install2" ELSE "release"]
    /\ UNCHANGED <<cdn_list, geo_ip, lock, last_update, cycles, chk, checkerFrame>>

\* RuBlacklist::install, the domains.
UpdInstallRuDomains ==
    /\ upd.pc = "install2" /\ upd.ds = "ru"
    /\ LET r == RuUpdateDomains(ru_blacklist, upd.base.domains)
       IN  /\ ru_blacklist' = r.self
           /\ upd' = [Logged(upd, ~r.ok) EXCEPT !.pc = "release"]
    /\ UNCHANGED <<cdn_list, geo_ip, lock, last_update, cycles, chk, checkerFrame>>

\* CdnList::install under the write lock.
UpdInstallCdn ==
    /\ upd.pc = "install" /\ upd.ds = "cdn"
    /\ LET r == CdnUpdate(cdn_list, upd.base)
       IN  /\ cdn_list' = r.self
           /\ upd' = [Logged(upd, ~r.ok) EXCEPT !.pc = "release"]
    /\ UNCHANGED <<ru_blacklist, geo_ip, lock, last_update, cycles, chk, checkerFrame>>

\* The write guard is dropped at the end of the `if let`.
UpdRelease ==
    /\ upd.pc = "release"
    /\ lock' = [lock EXCEPT ![upd.ds].writer = FALSE]
    /\ upd' = AfterDataset(upd)
    /\ UNCHANGED <<cdn_list, ru_blacklist, geo_ip, last_update, cycles, chk, checkerFrame>>

\* watch::Sender::send: the channel holds one value, which the new one replaces.
WatchSend_KeepsUnread(slot, v) == IF slot = <<>> THEN <<v>> ELSE slot
WatchSend_NothingStored(slot, v) == slot
WatchSend(slot, v) == <<v>>

\* watch::Receiver::borrow
WatchBorrow(slot) == slot

\* self.tx.send(Some(Utc::now()))
UpdPublish ==
    /\ upd.pc = "publish"
    /\ last_update' = WatchSend(last_update, cycles)
    /\ upd' = [upd EXCEPT !.pc = "idle"]
    /\ UNCHANGED <<cdn_list, ru_blacklist, geo_ip, lock, cycles, chk, checkerFrame>>

NextChecker ==
    \/ \E t \in CheckTargets : ChkStart(t)
    \/ \E raw \in RawFor(chk.target) : ChkResolve(raw)
    \/ ChkGeo
    \/ ChkCdn
    \/ ChkRu
    \/ ChkReturn
    \/ UpdStart
    \/ UpdDownloadFails
    \/ \E base \in FilesOf(upd.ds) : UpdDownloaded(base)
    \/ UpdWriteLocked
    \/ UpdInstallGeo
    \/ UpdInstallRuIps
    \/ UpdInstallRuDomains
    \/ UpdInstallCdn
    \/ UpdRelease
    \/ UpdPublish

SpecChecker == InitChecker /\ [][NextChecker]_vars

(***************************************************************************)
(* update_all cycles and callers of Checker::last_update.                  *)
(***************************************************************************)
\* Checker::last_update: self.rx.borrow().clone()
LastUpdate(r) ==
    /\ observed' = [observed EXCEPT ![r] = [called |-> TRUE, value |-> WatchBorrow(last_update)]]
    /\ UNCHANGED <<cdn_list, ru_blacklist, geo_ip, lock, last_update, cycles, upd, chk,
                   retry_count, proberVars, probeVars, listInput, listLoaded, listAnswer,
                   peers, totals, geoReads, geoInfo>>

\* healthcheck: OK when last_update() is Some, else "LOADING DATABASES".
Healthcheck(value) == IF value # <<>> THEN "OK" ELSE "LOADING DATABASES"

NextWatch ==
    \/ UpdStart
    \/ UpdDownloadFails
    \/ \E base \in FilesOf(upd.ds) : UpdDownloaded(base)
    \/ UpdWriteLocked
    \/ UpdInstallGeo
    \/ UpdInstallRuIps
    \/ UpdInstallRuDomains
    \/ UpdInstallCdn
    \/ UpdRelease
    \/ UpdPublish
    \/ \E r \in Readers : LastUpdate(r)

SpecWatch == InitChecker /\ [][NextWatch]_vars

(***************************************************************************)
(* Concurrent Checker::check calls and update_all, as far as the locks     *)
(* are concerned: each call takes the geo, cdn and ru read locks in that   *)
(* order, keeps them, and drops them when it returns.                      *)
(***************************************************************************)
peerFrame ==
    <<cdn_list, ru_blacklist, geo_ip, last_update, cycles, upd, chk, observed, totals, geoReads,
      geoInfo, retry_count, proberVars, probeVars, listInput, listLoaded, listAnswer>>

\* check is called and target.resolve gave addresses.
PeerResolved(c) ==
    /\ peers[c] = "idle"
    /\ peers' = [peers EXCEPT ![c] = "geo"]
    /\ UNCHANGED <<lock, peerFrame>>

\* self.geo_ip.read().await and the lookup.
PeerGeo(c) ==
    /\ peers[c] = "geo"
    /\ CanRead(lock["geo"])
    /\ lock' = [lock EXCEPT !["geo"] = ReadLocked(@)]
    /\ peers' = [peers EXCEPT ![c] = "cdn"]
    /\ UNCHANGED peerFrame

\* The lookup is Err: check returns GeoIpError, the guard it took is dropped.
PeerGeoFails(c) ==
    /\ peers[c] = "geo"
    /\ CanRead(lock["geo"])
    /\ \E a \in Addrs : ~GeoLookup(geo_ip, a).ok
    /\ peers' = [peers EXCEPT ![c] = "idle"]
    /\ UNCHANGED <<lock, peerFrame>>

\* self.cdn_list.read().await
PeerCdn(c) ==
    /\ peers[c] = "cdn"
    /\ CanRead(lock["cdn"])
    /\ lock' = [lock EXCEPT !["cdn"] = ReadLocked(@)]
    /\ peers' = [peers EXCEPT ![c] = "ru"]
    /\ UNCHANGED peerFrame

\* self.ru_blacklist.read().await
PeerRu(c) ==
    /\ peers[c] = "ru"
    /\ CanRead(lock["ru"])
    /\ lock' = [lock EXCEPT !["ru"] = ReadLocked(@)]
    /\ peers' = [peers EXCEPT ![c] = "return"]
    /\ UNCHANGED peerFrame

\* check returns Ok(Check): the three read guards are dropped.
PeerReturn(c) ==
    /\ peers[c] = "return"
    /\ lock' = [d \in Datasets |-> ReadUnlocked(lock[d])]
    /\ peers' = [peers EXCEPT ![c] = "idle"]
    /\ UNCHANGED peerFrame

PeerStep(c) == PeerGeo(c) \/ PeerGeoFails(c) \/ PeerCdn(c) \/ PeerRu(c) \/ PeerReturn(c)

UpdDownloadEnds == UpdDownloadFails \/ \E base \in FilesOf(upd.ds) : UpdDownloaded(base)

NextLocks ==
    \/ \E c \in Checks : PeerResolved(c)
    \/ \E c \in Checks : PeerGeo(c)
    \/ \E c \in Checks : PeerGeoFails(c)
    \/ \E c \in Checks : PeerCdn(c)
    \/ \E c \in Checks : PeerRu(c)
    \/ \E c \in Checks : PeerReturn(c)
    \/ UpdStart
    \/ UpdDownloadFails
    \/ \E base \in FilesOf(upd.ds) : UpdDownloaded(base)
    \/ UpdWriteLocked
    \/ UpdInstallGeo
    \/ UpdInstallRuIps
    \/ UpdInstallRuDomains
    \/ UpdInstallCdn
    \/ UpdRelease
    \/ UpdPublish

\* The runtime keeps polling every call that can go on and tokio's RwLock is
\* fair: a step of a check or of update_all that stays possible is taken.
\* Every download ends, one way or the other.  Calls of check and timer ticks
\* are not owed.
SpecLocksFair ==
    /\ InitChecker
    /\ [][NextLocks]_vars
    /\ \A c \in Checks : WF_vars(PeerStep(c))
    /\ WF_vars(UpdDownloadEnds)
    /\ WF_vars(UpdWriteLocked)
    /\ WF_vars(UpdInstallGeo \/ UpdInstallRuIps \/ UpdInstallRuDomains \/ UpdInstallCdn)
    /\ WF_vars(UpdRelease)
    /\ WF_vars(UpdPublish)

(***************************************************************************)
(* Checker::total_v4s, called by the index page while update_all runs.     *)
(***************************************************************************)
\* IpnetTrie::ip_count().0: the IPv4 addresses the stored networks cover.
V4Count(trie) ==
    Cardinality({a \in Addrs :
        a.fam = 4 /\ \E k \in 0..AddrBits : PrefixOf(a, k) \in DOMAIN trie})

\* The counts are as wide as an IPv4 address.
CountModulus == 2 ^ AddrBits

\* u32 + u32: the sum when it fits; else a panic where the build checks
\* overflow, and the sum modulo the width where it does not.
U32Add(a, b) ==
    IF a + b < CountModulus
    THEN {[k |-> "Ok", value |-> a + b]}
    ELSE {[k |-> "Panic", value |-> 0], [k |-> "Ok", value |-> (a + b) % CountModulus]}

totalsFrame ==
    <<cdn_list, ru_blacklist, geo_ip, last_update, cycles, upd, chk, observed, peers, geoReads,
      geoInfo, retry_count, proberVars, probeVars, listInput, listLoaded, listAnswer>>

\* The index page calls total_v4s.
TotalStart ==
    /\ totals.pc \in {"idle", "done"}
    /\ totals' = [NoTotal EXCEPT !.pc = "cdn"]
    /\ UNCHANGED <<lock, totalsFrame>>

\* self.cdn_list.read().await.v4_count(): the guard lives to the end of the
\* expression.
TotalCdn ==
    /\ totals.pc = "cdn"
    /\ CanRead(lock["cdn"])
    /\ lock' = [lock EXCEPT !["cdn"] = ReadLocked(@)]
    /\ totals' = [totals EXCEPT !.pc = "ru", !.cdn = V4Count(cdn_list)]
    /\ UNCHANGED totalsFrame

\* self.ru_blacklist.read().await.v4_count(), the addition, the cast to
\* usize; both guards are dropped.
TotalRu ==
    /\ totals.pc = "ru"
    /\ CanRead(lock["ru"])
    /\ LET ru == V4Count(ru_blacklist.ip_trie)
       IN  \E r \in U32Add(totals.cdn, ru) :
              totals' = [totals EXCEPT !.pc = "done", !.ru = ru, !.result = <<r>>]
    /\ lock' = [lock EXCEPT !["cdn"] = ReadUnlocked(@)]
    /\ UNCHANGED totalsFrame

NextTotals ==
    \/ TotalStart
    \/ TotalCdn
    \/ TotalRu
    \/ UpdStart
    \/ UpdDownloadFails
    \/ \E base \in FilesOf(upd.ds) : UpdDownloaded(base)
    \/ UpdWriteLocked
    \/ UpdInstallGeo
    \/ UpdInstallRuIps
    \/ UpdInstallRuDomains
    \/ UpdInstallCdn
    \/ UpdRelease
    \/ UpdPublish

SpecTotals == InitChecker /\ [][NextTotals]_vars

(***************************************************************************)
(* check_target run alone, with the history of its attempts.               *)
(***************************************************************************)
\* reporter/src/main.rs:118: the overall request timeout, in seconds.
RequestTimeoutSecs == 15

\* The values of --timeout-secs tried (5 is the default).
TimeoutSecs == {1, 5}

\* Resolver::new: SocketAddr::new(ip, 0)
ResolverNew(addr) == [ip |-> [ip |-> addr, port |-> 0]]

ResolverResolve_SystemDns(self, name) == IF Len(name) = 1 THEN <<self.ip>> ELSE <<>>
\* Resolver::resolve: vec![self.ip], whatever the name.
ResolverResolve(self, name) == <<self.ip>>

\* build_client(args, attempt): the Client the builder makes.
BuildClient(secs, addr, attempt) ==
    [read_timeout |-> secs * attempt,
     timeout |-> RequestTimeoutSecs,
     dns_resolver |-> ResolverNew(addr)]

AttemptMultiplier_Escalates(n) == n
\* The second argument check_target passes to build_client for attempt n.
AttemptMultiplier(n) == 1

InitProbe ==
    /\ retry_count \in 0..MaxRetry
    /\ attempts = 0
    /\ history = <<>>
    /\ verdict = Pending
    /\ timeout_secs \in TimeoutSecs
    /\ args_ip \in {A4a, A6a}
    /\ built = <<>>
    /\ resolved = <<>>
    /\ InitIdleChecker
    /\ InitIdleProber
    /\ InitIdleLists

Attempt(o) ==
    /\ verdict = Pending
    /\ attempts' = attempts + 1
    /\ history' = Append(history, o)
    /\ built' = Append(built,
                       [attempt |-> attempts + 1,
                        client |-> IF o.k = "build_err" THEN <<>>
                                   ELSE <<BuildClient(timeout_secs, args_ip,
                                                      AttemptMultiplier(attempts + 1))>>])
    /\ LET r == Classify(attempts + 1, retry_count, o)
       IN  verdict' = IF r.v = "Continue" THEN Pending ELSE r
    /\ UNCHANGED <<retry_count, timeout_secs, args_ip, resolved, proberVars, listVars,
                   checkerVars>>

\* build_client(&args, 1)? fails: check_target returns the builder's error.
AttemptBuildFails ==
    \E o \in {x \in Outcomes : x.k = "build_err"} : Attempt(o)

\* resp.send().await is Err(e): paired with early = true.
AttemptSendFails ==
    \E o \in {x \in Outcomes : x.k = "send_err"} : Attempt(o)

\* send() gave a response and resp.bytes().await is Err(e): early = false.
AttemptBodyFails ==
    \E o \in {x \in Outcomes : x.k = "body_err"} : Attempt(o)

\* send() gave a response and its body was read in full.
AttemptResponds ==
    \E o \in {x \in Outcomes : x.k = "resp"} : Attempt(o)

NextProbe ==
    \/ AttemptBuildFails
    \/ AttemptSendFails
    \/ AttemptBodyFails
    \/ AttemptResponds

SpecProbe == InitProbe /\ [][NextProbe]_vars

\* Every attempt ends (reqwest's timeouts bound it), so check_target's loop
\* keeps going while it has not returned.
SpecProbeFair == InitProbe /\ [][NextProbe]_vars /\ WF_vars(NextProbe)

(***************************************************************************)
(* The prober's DNS override (reporter/src/resolver.rs): one client of     *)
(* build_client and the lookups reqwest asks of its resolver.              *)
(***************************************************************************)
\* The host names a lookup is asked for.
Hostnames == {<<"a">>, <<"a", ".", "a">>, <<".", "a">>}

InitResolver ==
    /\ timeout_secs \in TimeoutSecs
    /\ args_ip \in Addrs
    /\ built = <<>>
    /\ resolved = <<>>
    /\ retry_count = 0
    /\ attempts = 0
    /\ history = <<>>
    /\ verdict = Pending
    /\ InitIdleChecker
    /\ InitIdleProber
    /\ InitIdleLists

\* build_client(&args, 1) returns Ok(client).
ClientBuilt ==
    /\ built = <<>>
    /\ built' = <<[attempt |-> 1,
                   client |-> <<BuildClient(timeout_secs, args_ip, AttemptMultiplier(1))>>]>>
    /\ UNCHANGED <<retry_count, attempts, history, verdict, timeout_secs, args_ip, resolved,
                   proberVars, listVars, checkerVars>>

\* reqwest asks the client's resolver for `name` before it connects.
Resolve(name) ==
    /\ built # <<>>
    /\ Len(resolved) < MaxCalls
    /\ resolved' = Append(resolved,
                          [name |-> name,
                           addrs |-> ResolverResolve(built[1].client[1].dns_resolver, name)])
    /\ UNCHANGED <<retry_count, attempts, history, verdict, timeout_secs, args_ip, built,
                   proberVars, listVars, checkerVars>>

NextResolver ==
    \/ ClientBuilt
    \/ \E name \in Hostnames : Resolve(name)

SpecResolver == InitResolver /\ [][NextResolver]_vars

(***************************************************************************)
(* The prober's main: dispatch loop, probe tasks, collection.              *)
(***************************************************************************)
\* The target lists tried: n pairwise different names, or one name n times
\* (list.csv may repeat a name).  Names are numbered.
TargetLists ==
    {[i \in 1..n |-> i] : n \in 0..MaxTargets} \cup {[i \in 1..n |-> 1] : n \in 2..MaxTargets}

NoOutcome == [k |-> "none", timeout |-> FALSE, connect |-> FALSE]
NoTask == [st |-> "none", attempts |-> 0, res |-> Pending, last |-> NoOutcome]

\* retry_count 0 and 1 both give a single attempt; the runs are tried with
\* no retry and with the largest budget, and with no permit, one permit and
\* the largest number of permits.
InitProber ==
    /\ probe_count \in {0, 1, MaxProbes}
    /\ retry_count \in {0, MaxRetry}
    /\ targets \in TargetLists
    /\ mainPc = "loop"
    /\ pos = 1
    /\ sem = probe_count
    /\ cancelled = 0
    /\ task = [i \in 1..Len(targets) |-> NoTask]
    /\ futs = {}
    /\ counter = CounterDefault
    /\ exitCode = <<>>
    /\ report = NoReport
    /\ attempts = 0
    /\ history = <<>>
    /\ verdict = Pending
    /\ InitIdleClient
    /\ InitIdleLists
    /\ InitIdleChecker

Alive == mainPc # "exited"

IsCancelled_OnSecondSignal == cancelled > 1
\* The closure wait_for_ctrlc returns: cancelled.load() != 0
IsCancelled == cancelled # 0

PermitAvailable_Always(s) == TRUE
\* Semaphore::acquire_owned resolves only when a permit is available.
PermitAvailable(s) == s > 0

\* The head of the for loop: the list is exhausted, or `if cancelled() break`,
\* or go on to wait for a permit.
LoopHead ==
    /\ mainPc = "loop"
    /\ mainPc' = IF pos > Len(targets) \/ IsCancelled THEN "collect" ELSE "acquire"
    /\ UNCHANGED <<probe_count, retry_count, targets, pos, sem, cancelled, task,
                   futs, counter, exitCode, report, probeVars, listVars, checkerVars>>

\* acquire_owned().await resolves, the task is spawned and pushed to futs.
Dispatch ==
    /\ mainPc = "acquire"
    /\ PermitAvailable(sem)
    /\ sem' = sem - 1
    /\ task' = [task EXCEPT ![pos] = [NoTask EXCEPT !.st = "running"]]
    /\ futs' = futs \cup {pos}
    /\ pos' = pos + 1
    /\ mainPc' = "loop"
    /\ UNCHANGED <<probe_count, retry_count, targets, cancelled, counter, exitCode,
                   report, probeVars, listVars, checkerVars>>

\* What a finished task remembers of its final attempt: the transport failure
\* it ended on when that was not a timeout, nothing otherwise.
LastOutcome(o) ==
    IF o.k \in {"send_err", "body_err"} /\ ~o.timeout
    THEN [k |-> o.k, timeout |-> o.timeout, connect |-> o.connect]
    ELSE NoOutcome

Released_AtEndOfBatch(res) == 0
Released_NotOnPanic(res) == IF res.v = "Panicked" THEN 0 ELSE 1
\* The permits a task gives back when it ends with res: the OwnedSemaphorePermit
\* it owns is dropped by drop(permit), or by the unwinding of a panic.
Released(res) == 1

\* One attempt of a spawned task's check_target; when it returns, the task
\* drops its permit and its future is ready with (target, res).
TaskAttempt(i, o) ==
    /\ Alive
    /\ task[i].st = "running"
    /\ LET n == task[i].attempts + 1
           r == Classify(n, retry_count, o)
       IN  IF r.v = "Continue"
           THEN /\ task' = [task EXCEPT ![i].attempts = n]
                /\ sem' = sem
           ELSE /\ task' = [task EXCEPT ![i] =
                                 [NoTask EXCEPT !.st = "finished", !.res = r,
                                                !.last = LastOutcome(o)]]
                /\ sem' = sem + Released(r)
    /\ UNCHANGED <<probe_count, retry_count, targets, mainPc, pos, cancelled, futs,
                   counter, exitCode, report, probeVars, listVars, checkerVars>>

\* A spawned task panics: the unwinding drops its permit and its JoinHandle
\* is ready with a JoinError.
Panicked == [v |-> "Panicked", early |-> FALSE, timeout |-> FALSE, connect |-> FALSE]

TaskPanics(i) ==
    /\ Alive
    /\ task[i].st = "running"
    /\ task' = [task EXCEPT ![i] = [NoTask EXCEPT !.st = "finished", !.res = Panicked]]
    /\ sem' = sem + Released(Panicked)
    /\ UNCHANGED <<probe_count, retry_count, targets, mainPc, pos, cancelled, futs,
                   counter, exitCode, report, probeVars, listVars, checkerVars>>

EvidenceOf_NoConnectTest(res) ==
    CASE res.v = "Accepted" -> "Ok"
      [] res.v = "Blocked" -> "Blocked"
      [] OTHER -> "ConnectError"
\* The Evidence the collector's match assigns to a task result.
EvidenceOf(res) ==
    CASE res.v = "Accepted" -> "Ok"
      [] res.v = "Blocked" -> "Blocked"
      [] res.v = "Err" /\ res.connect -> "ConnectError"
      [] OTHER -> "Error"

Collected_ErrorsOnlyLogged(c, target, res) ==
    CASE res.v \in {"Panicked", "Err"} -> c
      [] res.v = "Blocked" /\ res.early ->
           [CounterAdd(c, target, EvidenceOf(res)) EXCEPT !.early = @ + 1]
      [] OTHER -> CounterAdd(c, target, EvidenceOf(res))
\* The collector's match on one item of the stream: the Counter after it.
Collected(c, target, res) ==
    CASE res.v = "Panicked" -> c
      [] res.v = "Blocked" /\ res.early ->
           [CounterAdd(c, target, EvidenceOf(res)) EXCEPT !.early = @ + 1]
      [] OTHER -> CounterAdd(c, target, EvidenceOf(res))

\* futs.next().await yields a finished task, in any order; a JoinError is
\* only logged.
Collect(i) ==
    /\ mainPc = "collect"
    /\ i \in futs
    /\ task[i].st = "finished"
    /\ LET res == task[i].res
       IN  /\ counter' = Collected(counter, targets[i], res)
           /\ task' = [task EXCEPT ![i] =
                          [NoTask EXCEPT !.st = IF res.v = "Panicked" THEN "lost"
                                                ELSE "collected"]]
    /\ futs' = futs \ {i}
    /\ UNCHANGED <<probe_count, retry_count, targets, mainPc, pos, sem, cancelled,
                   exitCode, report, probeVars, listVars, checkerVars>>

StreamEnded_WhenCancelled(f) == f = {} \/ IsCancelled
\* FuturesUnordered::next yields None when no future is left in it.
StreamEnded(f) == f = {}

\* futs.next().await yields None: the stream is empty.
CollectDone ==
    /\ mainPc = "collect"
    /\ StreamEnded(futs)
    /\ mainPc' = "finish"
    /\ UNCHANGED <<probe_count, retry_count, targets, pos, sem, cancelled, task,
                   futs, counter, exitCode, report, probeVars, listVars, checkerVars>>

\* print_results, then save_results when --output is given: `out` is "none"
\* (no --output), "ok", or "fail" (from_path or a write fails, and `?` makes
\* main return the error: the process exits with code 1).
SaveOutcomes == {"none", "ok", "fail"}

SaveResults(out) ==
    /\ mainPc = "finish"
    /\ CASE out = "none" -> mainPc' = "upload" /\ UNCHANGED <<report, exitCode>>
         [] out = "ok" ->
              /\ mainPc' = "upload"
              /\ report' = [report EXCEPT !.file = <<counter.results>>]
              /\ UNCHANGED exitCode
         [] out = "fail" ->
              /\ mainPc' = "exited"
              /\ exitCode' = <<1>>
              /\ UNCHANGED report
    /\ UNCHANGED <<probe_count, retry_count, targets, pos, sem, cancelled, task,
                   futs, counter, probeVars, listVars, checkerVars>>

\* upload_results: the report cannot be serialized ("ser_err"), the request
\* fails ("send_err"), the status is not a success ("status"), the response
\* body cannot be read ("body_err"), or all is well ("ok"); main logs an Err
\* and returns Ok(()) in every case.
UploadOutcomes == {"ser_err", "send_err", "status", "body_err", "ok"}

ExitAfterUpload_Propagates(o) == IF o = "ok" THEN 0 ELSE 1
\* `if let Err(e) = upload_results(..).await { warn!(..) }`, then Ok(()).
ExitAfterUpload(o) == 0

UploadResults(o) ==
    /\ mainPc = "upload"
    /\ report' = [report EXCEPT !.uploads = @ + 1,
                                !.sent = IF o = "ser_err" THEN @ ELSE <<counter.results>>]
    /\ mainPc' = "exited"
    /\ exitCode' = <<ExitAfterUpload(o)>>
    /\ UNCHANGED <<probe_count, retry_count, targets, pos, sem, cancelled, task,
                   futs, counter, probeVars, listVars, checkerVars>>

\* The task of wait_for_ctrlc: fetch_add(1); the first signal only sets the
\* flag, a later one ends the process with exit(130).
CtrlC ==
    /\ Alive
    /\ cancelled' = cancelled + 1
    /\ IF cancelled = 0
       THEN UNCHANGED <<mainPc, exitCode>>
       ELSE mainPc' = "exited" /\ exitCode' = <<130>>
    /\ UNCHANGED <<probe_count, retry_count, targets, pos, sem, task, futs, counter,
                   report, probeVars, listVars, checkerVars>>

NextProber ==
    \/ LoopHead
    \/ Dispatch
    \/ \E i \in 1..Len(targets), o \in Outcomes : TaskAttempt(i, o)
    \/ \E i \in 1..Len(targets) : TaskPanics(i)
    \/ \E i \in 1..Len(targets) : Collect(i)
    \/ CollectDone
    \/ \E out \in SaveOutcomes : SaveResults(out)
    \/ \E o \in UploadOutcomes : UploadResults(o)
    \/ CtrlC

SpecProber == InitProber /\ [][NextProber]_vars

\* A run in which no cancellation signal comes.
NextUnsignalled ==
    \/ LoopHead
    \/ Dispatch
    \/ \E i \in 1..Len(targets), o \in Outcomes : TaskAttempt(i, o)
    \/ \E i \in 1..Len(targets) : TaskPanics(i)
    \/ \E i \in 1..Len(targets) : Collect(i)
    \/ CollectDone
    \/ \E out \in SaveOutcomes : SaveResults(out)
    \/ \E o \in UploadOutcomes : UploadResults(o)

\* The tokio runtime keeps polling main and every spawned task: each step of
\* theirs that stays possible is taken, and every probe ends (reqwest's
\* timeouts bound each attempt).  Panics are not owed.
SpecProberFair ==
    /\ InitProber
    /\ [][NextUnsignalled]_vars
    /\ WF_vars(LoopHead)
    /\ WF_vars(Dispatch)
    /\ WF_vars(\E i \in 1..Len(targets), o \in Outcomes : TaskAttempt(i, o))
    /\ WF_vars(\E i \in 1..Len(targets) : Collect(i))
    /\ WF_vars(CollectDone)
    /\ WF_vars(\E out \in SaveOutcomes : SaveResults(out))
    /\ WF_vars(\E o \in UploadOutcomes : UploadResults(o))

(***************************************************************************)
(* Claims about the classifier (under SpecCdn and SpecRu).                 *)
(***************************************************************************)
\* Network n covers address a: same family, and a starts with n's bits.
Covers(n, a) ==
    /\ n.fam = a.fam
    /\ Len(n.bits) <= Len(a.bits)
    /\ \A j \in 1..Len(n.bits) : n.bits[j] = a.bits[j]

\* The rows of the input that cover a.
CoveringRows(a) == {i \in 1..Len(listInput) : Covers(listInput[i].cidr, a)}

\* C8: after CdnList.update, contains(a) is the record of the longest-prefix
\* loaded network covering a (the last row given for that network), and None
\* exactly when no loaded network covers a.
C8_ContainsIsLongestPrefix ==
    (listLoaded /\ listAnswer # <<>>)
    => LET a == listAnswer[1]
           r == listAnswer[2]
           c == CoveringRows(a)
       IN  /\ (r = <<>>) <=> (c = {})
           /\ r # <<>> =>
                 \E i \in c :
                    /\ r[1] = listInput[i]
                    /\ \A j \in c : Len(listInput[j].cidr.bits) <= Len(listInput[i].cidr.bits)
                    /\ \A j \in c : listInput[j].cidr = listInput[i].cidr => j <= i

\* Two nested networks cover the address, the more specific one was given
\* first and is the answer; the list loaded before is gone.
C8_Witness ==
    /\ listLoaded
    /\ Len(listInput) = 2
    /\ listAnswer # <<>>
    /\ CoveringRows(listAnswer[1]) = {1, 2}
    /\ Len(listInput[1].cidr.bits) > Len(listInput[2].cidr.bits)
    /\ listAnswer[2] = <<listInput[1]>>

\* String d ends with string e.
EndsWith(d, e) ==
    /\ Len(e) <= Len(d)
    /\ \A j \in 1..Len(e) : d[Len(d) - Len(e) + j] = e[j]

\* Entry e equals d or is an ancestor of d at a label boundary.
AncestorOrSelf(e, d) == d = e \/ EndsWith(d, <<".">> \o e)

LoadedDomains == {listInput.domains[i] : i \in 1..Len(listInput.domains)}

\* C9: after RuBlacklist.update, contains_domain(d) is Some(e) iff some loaded
\* entry equals d or is an ancestor of d at a label boundary, and e is such an
\* entry; sharing only a string suffix with an entry gives None.
C9_ContainsDomainIffAncestor ==
    (listLoaded /\ listAnswer # <<>>)
    => LET d == listAnswer[1]
           r == listAnswer[2]
       IN  /\ (r # <<>>) <=> (\E e \in LoadedDomains : AncestorOrSelf(e, d))
           /\ r # <<>> => (r[1] \in LoadedDomains /\ AncestorOrSelf(r[1], d))

\* "a.a" against the entry "a" is Some("a").
C9_Witness ==
    /\ listLoaded
    /\ listInput.domains = << <<"a">> >>
    /\ listAnswer = << <<"a", ".", "a">>, << <<"a">> >> >>

\* "aa" against the entry "a" (a shared string suffix only) is None.
C9_WitnessSuffixOnly ==
    /\ listLoaded
    /\ listInput.domains = << <<"a">> >>
    /\ listAnswer = << <<"a", "a">>, <<>> >>

(***************************************************************************)
(* Claims about the prober's run (under SpecProber).                       *)
(***************************************************************************)
\* The spawned tasks that still hold their permit.
Executing == {i \in DOMAIN task : task[i].st = "running"}

\* C1: the number of check_target tasks spawned and not yet released never
\* exceeds probe_count, for every target list.
C1_AtMostProbeCountExecuting ==
    Cardinality(Executing) <= probe_count

\* Two probes hold both permits while a third target waits for one.
C1_Witness ==
    /\ probe_count = 2
    /\ Cardinality(Executing) = 2
    /\ mainPc = "acquire"
    /\ pos = 3

C5_Step ==
    /\ \A i \in DOMAIN task :
          (task'[i].st = "finished"
             /\ task'[i].last.k \in {"send_err", "body_err"}
             /\ ~task'[i].last.timeout)
          => /\ task'[i].res.v = "Err"
             /\ task'[i].res.connect = task'[i].last.connect
             /\ ~task'[i].res.timeout
    /\ \A i \in DOMAIN task :
          (task[i].st = "finished" /\ task'[i].st = "collected"
             /\ task[i].res.v # "Panicked")
          => LET r == task[i].res
                 e == counter'.results[targets[i]]
             IN  /\ (e = "ConnectError") <=> (r.v = "Err" /\ r.connect)
                 /\ (e = "Error") <=> (r.v = "Err" /\ ~r.connect)
                 /\ (e = "Blocked") <=> (r.v = "Blocked")
                 /\ counter'.block = counter.block + (IF r.v = "Blocked" THEN 1 ELSE 0)
                 /\ counter'.err = counter.err + (IF r.v = "Err" THEN 1 ELSE 0)

\* C5: a transport failure on the final attempt that is not a timeout never
\* gives Blocked: check_target returns that error; the collector records
\* ConnectError exactly for a connection-phase error, Error for every other
\* error, and Blocked only for a Blocked verdict of check_target.
C5_ErrorsAreNotBlocked == [][C5_Step]_vars

\* A run that recorded a ConnectError, an Error and a Blocked.
C5_Witness ==
    /\ DOMAIN counter.results = {1, 2, 3}
    /\ {counter.results[n] : n \in DOMAIN counter.results}
           = {"ConnectError", "Error", "Blocked"}
    /\ counter.err = 2

(***************************************************************************)
(* Claims about check_target (under SpecProbe).                            *)
(***************************************************************************)
\* A response with an HTTP-success status and at least 65535 body bytes.
FullResponse(o) == o.k = "resp" /\ o.success /\ o.len >= MinBodyLen
\* A response that fails that test.
ShortResponse(o) == o.k = "resp" /\ ~(o.success /\ o.len >= MinBodyLen)
\* A transport failure that is a timeout, in either phase.
TimedOut(o) == o.k \in {"send_err", "body_err"} /\ o.timeout
\* The greatest attempt number check_target issues.
Budget == IF retry_count >= 1 THEN retry_count ELSE 1
Last(h) == h[Len(h)]

\* C2: check_target returns Accepted iff some attempt within the retry budget
\* got a success status with a fully read body of at least 65535 bytes; that
\* attempt is the last one issued (it returns there, no further attempt), and
\* 65535 bytes are accepted while 65534 are not.
C2_AcceptedIffFullResponse ==
    /\ Len(history) = attempts
    /\ Len(history) <= Budget
    /\ (verdict.v = "Accepted") <=> (\E k \in 1..Len(history) : FullResponse(history[k]))
    /\ \A k \in 1..Len(history) : FullResponse(history[k]) => k = Len(history)
    /\ \A k \in 1..Len(history) :
          /\ (history[k].k = "resp" /\ history[k].success /\ history[k].len = 65535)
                => (k = Len(history) /\ verdict = Accepted)
          /\ (k = Len(history) /\ history[k].k = "resp" /\ history[k].len = 65534)
                => verdict.v # "Accepted"

\* Accepted on the second attempt with exactly 65535 bytes, after 65534 bytes.
C2_Witness ==
    /\ verdict = Accepted
    /\ Len(history) = 2
    /\ history[1].k = "resp" /\ history[1].success /\ history[1].len = 65534
    /\ history[2].len = 65535

\* C3 as stated: timeouts on every attempt through exhaustion give
\* Blocked(early = true) whichever phase timed out.
C3_Original_AlwaysEarly ==
    (verdict # Pending /\ \A k \in 1..Len(history) : TimedOut(history[k]))
        => verdict = Blocked(TRUE)

\* C3 amended: timeouts on every attempt through exhaustion give Blocked, with
\* early = true iff the final attempt timed out before a response head arrived
\* (in send), and early = false when it timed out reading the body.
C3_TimeoutsGiveBlocked ==
    (Len(history) >= 1 /\ \A k \in 1..Len(history) : TimedOut(history[k]))
        => IF Len(history) < retry_count
           THEN verdict = Pending
           ELSE verdict = Blocked(Last(history).k = "send_err")

\* Two timeouts, the last one while reading the body: Blocked, not early.
C3_Witness ==
    /\ Len(history) = 2
    /\ \A k \in 1..2 : TimedOut(history[k])
    /\ history[2].k = "body_err"
    /\ verdict = Blocked(FALSE)

\* C4: responses that fail the success test on every attempt give
\* Blocked(early = false) once the budget is exhausted; while attempts remain
\* such a response leads to a retry and never to a verdict.
C4_ShortResponsesGiveBlocked ==
    /\ (Len(history) >= 1 /\ \A k \in 1..Len(history) : ShortResponse(history[k]))
          => IF Len(history) < retry_count
             THEN verdict = Pending
             ELSE verdict = Blocked(FALSE)
    /\ (Len(history) >= 1 /\ ShortResponse(Last(history)) /\ Len(history) < retry_count)
          => verdict = Pending

\* A non-success status, then a success status with 65534 bytes: Blocked.
C4_Witness ==
    /\ Len(history) = 2
    /\ history[1].k = "resp" /\ ~history[1].success
    /\ history[2].k = "resp" /\ history[2].success /\ history[2].len = 65534
    /\ verdict = Blocked(FALSE)

(***************************************************************************)
(* Checker::check and Checker::update_all.                                 *)
(***************************************************************************)
DomainMatched ==
    /\ chk.target.kind = "Domain"
    /\ ContainsDomain(ru_blacklist, chk.target.name) # <<>>

CdnMatched == \E i \in 1..Len(chk.ips) : CdnContains(cdn_list, chk.ips[i]) # <<>>

SubnetMatched == \E i \in 1..Len(chk.ips) : ContainsIp(ru_blacklist, chk.ips[i]) # <<>>

\* C6: when check returns Ok, its verdict is Clear exactly when neither the
\* domain blacklist, nor a CDN network, nor an RKN subnet matched; otherwise
\* it is Blocked, and rkn_domain, rkn_subnets and cdn_provider_subnets are
\* non-empty exactly for the categories that matched.
C6_VerdictCarriesMatchedCategories ==
    chk.pc = "return" =>
        LET v == chk.result.verdict
        IN  /\ chk.result.k = "Ok"
            /\ v.clear <=> (~DomainMatched /\ ~CdnMatched /\ ~SubnetMatched)
            /\ ~v.clear =>
                 /\ (v.rkn_domain # <<>>) <=> DomainMatched
                 /\ (v.rkn_subnets # {}) <=> SubnetMatched
                 /\ (DOMAIN v.cdn_provider_subnets # {}) <=> CdnMatched

C6_Witness ==
    /\ chk.pc = "return"
    /\ DomainMatched /\ CdnMatched /\ SubnetMatched
    /\ ~chk.result.verdict.clear

\* C7: a check whose resolution reports no records returns Err(NotFound), one
\* whose resolution fails otherwise returns Err(ResolveError) carrying that
\* failure, and neither goes on to produce a Check.
C7_ResolveFailuresAreErrors ==
    /\ chk.raw.k = "no_records" =>
         /\ chk.pc = "done"
         /\ chk.result = [k |-> "Err", err |-> "NotFound", e |-> None]
    /\ chk.raw.k = "proto_err" =>
         /\ chk.pc = "done"
         /\ chk.result = [k |-> "Err", err |-> "ResolveError", e |-> chk.raw.e]

C7_Witness ==
    /\ chk.pc = "done"
    /\ chk.raw.k = "no_records"
    /\ chk.result.err = "NotFound"

\* What a dataset is when it holds one input completely: the constructed
\* value, or the build of an input that parses to the end.
CompleteRu ==
    {RuNew} \cup {RuUpdate(RuNew, f.ips, f.domains).self :
                     f \in {g \in RuFiles : RuUpdate(RuNew, g.ips, g.domains).ok}}

CompleteCdn ==
    {CdnNew} \cup {CdnUpdate(CdnNew, f).self : f \in {g \in CdnFiles : CdnUpdate(CdnNew, g).ok}}

\* C10: whatever a check reads under a dataset's read lock is the complete
\* contents of one input, for CdnList and for RuBlacklist (IP trie, domain
\* trie and domain count together), never a mixture of two inputs.
C10_ReadersSeeOneCompleteInput ==
    /\ lock["ru"].readers > 0 => ru_blacklist \in CompleteRu
    /\ lock["cdn"].readers > 0 => cdn_list \in CompleteCdn

\* The dataset whose read lock the check waits for at its current await.
AwaitedDataset ==
    CASE chk.pc = "geo" -> "geo"
      [] chk.pc = "cdn" -> "cdn"
      [] chk.pc = "ru" -> "ru"
      [] OTHER -> "none"

\* update_all is parsing and building the replacement of upd.ds.
Rebuilding == upd.pc \in {"install", "install2"}

\* C11: while update_all parses and builds the replacement of a dataset, a
\* check that needs that dataset's read lock can take it.
C11_RebuildDoesNotBlockReaders ==
    (Rebuilding /\ AwaitedDataset = upd.ds) => CanRead(lock[upd.ds])

\* What each dataset answers to the lookups tried.
GeoAnswers(g) == [a \in Addrs |-> GeoLookup(g, a)]

RuAnswers(r) ==
    [ips |-> [a \in Addrs |-> ContainsIp(r, a)],
     domains |-> [d \in DomainStrings |-> ContainsDomain(r, d)],
     count |-> r.domain_count]

CdnAnswers(c) == [a \in Addrs |-> CdnContains(c, a)]

\* The install update_all is in the middle of is going to return an error.
InstallFails ==
    CASE upd.pc = "install" /\ upd.ds = "geo" -> ~GeoUpdate(geo_ip, upd.base).ok
      [] upd.pc = "install" /\ upd.ds = "ru" ->
           ~RuUpdate(ru_blacklist, upd.base.ips, upd.base.domains).ok
      [] upd.pc = "install2" /\ upd.ds = "ru" ->
           ~RuUpdateDomains(ru_blacklist, upd.base.domains).ok
      [] upd.pc = "install" /\ upd.ds = "cdn" -> ~CdnUpdate(cdn_list, upd.base).ok
      [] OTHER -> FALSE

\* The step is a step of update_all.
UpdSteps == upd' # upd

DownloadFails == upd.pc = "dl" /\ UpdSteps /\ upd'.pc # "req"

C12_Step ==
    (InstallFails \/ DownloadFails) =>
        /\ GeoAnswers(geo_ip') = GeoAnswers(geo_ip)
        /\ RuAnswers(ru_blacklist') = RuAnswers(ru_blacklist)
        /\ CdnAnswers(cdn_list') = CdnAnswers(cdn_list)

\* C12: a dataset whose download or install fails during update_all answers
\* every lookup afterwards as it did before: no step of a failing install
\* changes an answer of GeoIP, RuBlacklist or CdnList.
C12_FailedRefreshKeepsAnswers == [][C12_Step]_vars

\* What a dataset holds after it has installed the input f and nothing else.
BuildOf(ds, f) ==
    CASE ds = "geo" -> GeoUpdate(GeoNew, f)
      [] ds = "ru" -> RuUpdate(RuNew, f.ips, f.domains)
      [] ds = "cdn" -> CdnUpdate(CdnNew, f)

NewContents(ds) == {BuildOf(ds, f).self : f \in {g \in FilesOf(ds) : BuildOf(ds, g).ok}}

Held(ds, geo, ru, cdn) ==
    CASE ds = "geo" -> geo
      [] ds = "ru" -> ru
      [] ds = "cdn" -> cdn

\* The step ends an install that succeeds.
InstallSucceeds ==
    /\ upd.pc \in {"install", "install2"}
    /\ upd'.pc = "release"
    /\ upd.ds \notin upd'.failed

C13_Step ==
    /\ InstallSucceeds =>
         Held(upd.ds, geo_ip', ru_blacklist', cdn_list') = BuildOf(upd.ds, upd.base).self
    /\ upd.pc \in {"dl", "req", "install", "install2", "release"} =>
         \A d \in Datasets \ {upd.ds} :
            Held(d, geo_ip', ru_blacklist', cdn_list') = Held(d, geo_ip, ru_blacklist, cdn_list)
    /\ ((upd.pc = "release" /\ UpdSteps) \/ DownloadFails) =>
         /\ upd.ds = "geo" => upd'.pc = "dl" /\ upd'.ds = "ru"
         /\ upd.ds = "ru" => upd'.pc = "dl" /\ upd'.ds = "cdn"
         /\ upd.ds = "cdn" => upd'.pc = "publish"
    /\ upd.pc = "publish" =>
         \A d \in Datasets \ upd.failed :
            Held(d, geo_ip, ru_blacklist, cdn_list) \in NewContents(d)

\* C13: in update_all a dataset whose own download and install succeed holds
\* the contents built from its input when update_all returns, whichever of the
\* other datasets failed, and update_all goes through all three datasets to
\* the send after every failure.
C13_FailuresAreIsolated == [][C13_Step]_vars

C13_Witness ==
    /\ upd.pc = "publish"
    /\ upd.failed = {"geo", "ru"}
    /\ cdn_list \in NewContents("cdn")

\* The cycles of update_all that have completed, and what the latest published.
Completed == IF upd.pc = "idle" THEN cycles ELSE cycles - 1

LatestPublished == IF Completed = 0 THEN <<>> ELSE <<Completed>>

C14_Step ==
    /\ last_update = LatestPublished
    /\ \A r \in Readers :
          observed'[r] # observed[r] =>
             /\ observed'[r].called
             /\ observed'[r].value = LatestPublished

\* C14: every call of last_update, by any caller and after any number of
\* completed update_all cycles, returns the timestamp the most recently completed
\* cycle published (None before the first), never an earlier one.
C14_LastUpdateIsLatest == [][C14_Step]_vars

C14_Witness ==
    /\ cycles = MaxCycles /\ upd.pc = "idle"
    /\ \A r \in Readers : observed[r] = [called |-> TRUE, value |-> <<MaxCycles>>]

(***************************************************************************)
(* The end of the prober's run (under SpecProber).                         *)
(***************************************************************************)
\* C15: the process exits with code 130 exactly when a second cancellation
\* signal arrived while it ran, and with code 0 in every other run, whatever
\* the probes gave and whether or not saving or uploading failed.
C15_ExitCodeIs130Or0 ==
    exitCode # <<>> =>
        /\ (exitCode = <<130>>) <=> (cancelled >= 2)
        /\ cancelled < 2 => exitCode = <<0>>

\* The tasks the dispatch loop has spawned.
Dispatched == 1..(pos - 1)

C16_Step ==
    /\ \A i \in DOMAIN task :
          /\ task[i].st = "running" => task'[i].st \in {"running", "finished"}
          /\ task[i].st = "finished" => task'[i].st \in {"finished", "collected", "lost"}
    /\ mainPc' \in {"finish", "upload"} =>
          /\ futs' = {}
          /\ \A i \in Dispatched :
                /\ task'[i].st \in {"collected", "lost"}
                /\ task'[i].st = "collected" => targets[i] \in DOMAIN counter'.results
    /\ (mainPc' = "exited" /\ \E i \in DOMAIN task : task'[i].st \in {"running", "finished"})
          => exitCode' = <<130>> /\ cancelled' >= 2
    /\ (mainPc = "finish" /\ mainPc' = "upload" /\ report' # report)
          => report'.file = <<counter.results>>
    /\ (mainPc = "upload" /\ report' # report) =>
          report'.sent \in {<<>>, <<counter.results>>}

\* C16: after one cancellation signal every task already dispatched runs to
\* its end and is collected before the results are printed, saved and
\* uploaded, as in a run without a signal; a dispatched task is left
\* unfinished only when a second signal ends the process.
C16_CancelledRunDrains == [][C16_Step]_vars

\* One signal came, the third target was never dispatched, and the two
\* dispatched tasks are in the results that were saved.
C16_Witness ==
    /\ cancelled = 1
    /\ mainPc = "upload"
    /\ Len(targets) = 3 /\ pos = 3
    /\ DOMAIN counter.results = {1, 2}
    /\ report.file = <<counter.results>>

\* The step is the call of upload_results.
UploadStep == report'.uploads # report.uploads

C17_Step ==
    /\ UploadStep =>
          /\ mainPc = "upload" /\ futs = {}
          /\ \A i \in Dispatched : task[i].st \in {"collected", "lost"}
          /\ report.uploads = 0 /\ report'.uploads = 1
          /\ counter' = counter
          /\ report'.file = report.file
          /\ exitCode' = <<0>>
    /\ exitCode' = <<0>> => report'.uploads = 1

\* C17: upload_results is called once, after collection has finished, and
\* whatever it returns (a request, serialization or body error, a non-success
\* status, or success) the collected results and the output file stay as they
\* are and the process exits with code 0.
C17_UploadFailureChangesNothing == [][C17_Step]_vars

\* A run whose report could not be serialized: nothing was sent, the file
\* holds the results, the exit code is 0.
C17_Witness ==
    /\ mainPc = "exited" /\ exitCode = <<0>>
    /\ report.uploads = 1 /\ report.sent = <<>>
    /\ report.file = <<counter.results>>
    /\ DOMAIN counter.results # {}

\* Task i ends in this step, with a transport error or a panic.
EndsBadly(i) ==
    /\ task[i].st = "running"
    /\ task'[i].st = "finished"
    /\ task'[i].res.v \in {"Err", "Panicked"}

C18_Step ==
    /\ \A i \in DOMAIN task :
          EndsBadly(i) =>
             /\ sem' = sem + 1
             /\ mainPc' = mainPc /\ pos' = pos /\ futs' = futs /\ exitCode' = exitCode
             /\ \A j \in DOMAIN task \ {i} : task'[j] = task[j]
    /\ \A i \in DOMAIN task :
          (task[i].st = "finished" /\ task[i].res.v = "Panicked" /\ task'[i].st # "finished")
          => task'[i].st = "lost" /\ counter' = counter /\ mainPc' = "collect"
    /\ \A i \in DOMAIN task :
          (task[i].st = "finished" /\ task[i].res.v = "Err" /\ task'[i].st # "finished")
          => /\ task'[i].st = "collected" /\ mainPc' = "collect"
             /\ counter'.results[targets[i]] \in {"ConnectError", "Error"}
    /\ (mainPc' \in {"collect", "finish", "upload"} /\ cancelled' = 0) =>
          pos' = Len(targets) + 1
    /\ mainPc' \in {"finish", "upload"} =>
          \A i \in Dispatched : task'[i].st \in {"collected", "lost"}

\* C18: a task that ends in a transport error or panics gives its permit back
\* and changes nothing else; with no signal every target is dispatched before
\* collection starts, every dispatched task is collected before the results
\* are put out, and collecting a panicked task only leaves the results as
\* they are.
C18_FailedTasksDoNotStopTheBatch == [][C18_Step]_vars

\* A run without a signal over three targets: one task panicked, one ended in
\* an error, one was accepted, and main has gone on to put out the results.
C18_Witness ==
    /\ cancelled = 0 /\ mainPc = "upload"
    /\ Len(targets) = 3
    /\ \E i \in DOMAIN task : task[i].st = "lost"
    /\ Cardinality(DOMAIN counter.results) = 2
    /\ counter.err = 1 /\ counter.ok = 1

\* Every permit is either in the semaphore or owned by a task that has not
\* ended; a free permit admits the waiting target at once.
PermitsAccounted ==
    /\ sem + Cardinality(Executing) = probe_count
    /\ (mainPc = "acquire" /\ Cardinality(Executing) < probe_count) => ENABLED Dispatch

\* Every target was dispatched and the run is over.
RunCompleted == mainPc = "exited" /\ pos = Len(targets) + 1

\* C19: a task owns one permit from its dispatch to the return of its own
\* check_target, so a waiting target is admitted as soon as a running probe
\* ends; with probe_count >= 1 and no cancellation signal every target is
\* eventually dispatched and the run reaches collection and terminates.
C19_PermitsReturnAndRunTerminates ==
    /\ []PermitsAccounted
    /\ (probe_count >= 1) => <>RunCompleted

\* With one permit, the second target is running while the first task has
\* ended and the third target is still to be dispatched.
C19_Witness ==
    /\ probe_count = 1 /\ Len(targets) = 3 /\ pos = 3
    /\ task[1].st = "finished"
    /\ task[2].st = "running"
    /\ mainPc = "acquire"

\* The orders in which the tasks of S can come out of the stream.
Orders(S) ==
    {p \in [1..Cardinality(S) -> S] : \A x \in S : \E k \in 1..Cardinality(S) : p[k] = x}

\* The Counter after collecting the tasks p[k], p[k+1], ... in that order.
RECURSIVE CollectedFrom(_, _, _)
CollectedFrom(c, p, k) ==
    IF k > Len(p) THEN c
    ELSE CollectedFrom(Collected(c, targets[p[k]], task[p[k]].res), p, k + 1)

\* C20: whatever the order in which the finished tasks are collected, the
\* target-to-Evidence map and the ok, block, err and early counters come out
\* the same, for every target list.
C20_CollectionOrderIsImmaterial ==
    (mainPc = "collect" /\ \A i \in futs : task[i].st = "finished") =>
        \A p, q \in Orders(futs) : CollectedFrom(counter, p, 1) = CollectedFrom(counter, q, 1)

\* The values of Evidence.
Evidences == {"Ok", "Blocked", "ConnectError", "Error"}

\* The tasks whose check_target returned and whose result the collector took.
Returned == {i \in DOMAIN task : task[i].st = "collected"}

\* C21: when collection has finished, every spawned task has left the stream,
\* the results map holds one Evidence (Ok, Blocked, ConnectError or Error) for
\* the target of every task that was dispatched and returned, and no entry
\* for a target that was never dispatched.
C21_ResultsCoverReturnedTargets ==
    mainPc \in {"finish", "upload"} =>
        /\ futs = {}
        /\ \A i \in DOMAIN task : task[i].st \in {"none", "collected", "lost"}
        /\ \A i \in DOMAIN task : task[i].st = "none" <=> i >= pos
        /\ DOMAIN counter.results = {targets[i] : i \in Returned}
        /\ \A n \in DOMAIN counter.results : counter.results[n] \in Evidences
        /\ \A n \in DOMAIN counter.results : \E i \in Dispatched : targets[i] = n

\* A cancelled run of three targets: two were probed, one to an error, and the
\* third was never dispatched.
C21_Witness ==
    /\ mainPc = "finish"
    /\ targets = <<1, 2, 3>>
    /\ pos = 3
    /\ DOMAIN counter.results = {1, 2}
    /\ counter.results[1] = "Error"
    /\ counter.results[2] = "Ok"

(***************************************************************************)
(* Claims about the prober's client (under SpecResolver and SpecProbe).    *)
(***************************************************************************)
\* SocketAddr::new(ip, 0) for the configured vantage address.
Vantage == [ip |-> args_ip, port |-> 0]

\* C22: the DNS override answers every lookup with the one configured vantage
\* address: whatever the host names asked for and whatever was asked before,
\* the address list is the same, so the name reaches the wire only as the
\* SNI/Host value and never picks the address.
C22_ResolverIgnoresTheName ==
    /\ \A k \in DOMAIN resolved : resolved[k].addrs = <<Vantage>>
    /\ \A j, k \in DOMAIN resolved : resolved[j].addrs = resolved[k].addrs

\* Three lookups of three different names on one resolver.
C22_Witness ==
    /\ Len(resolved) = 3
    /\ Cardinality({resolved[k].name : k \in DOMAIN resolved}) = 3
    /\ args_ip = A6a

(***************************************************************************)
(* More claims about Checker::check (under SpecChecker).                   *)
(***************************************************************************)
\* The three datasets are as Checker::new made them: no entry in any.
NoEntries ==
    /\ geo_ip = GeoNew
    /\ cdn_list = CdnNew
    /\ ru_blacklist = RuNew

\* What target.resolve gave the check at hand.
ResolvedNow == TargetResolve(chk.target, chk.raw)

\* The check at hand got past resolution and has ended.
EndedResolved ==
    /\ chk.pc \in {"return", "done"}
    /\ ResolvedNow.k = "Ok"

\* C23: while the datasets hold no entries, the check of every target that
\* resolves returns Ok with verdict Clear and all the resolved addresses; no
\* step after the resolution gives an error.
C23_EmptyDatasetsGiveClear ==
    (NoEntries /\ EndedResolved) =>
        /\ chk.result.k = "Ok"
        /\ chk.result.verdict = Clear
        /\ chk.result.ips = ResolvedNow.ips

\* A domain with two addresses is checked during a refresh whose downloads
\* have failed so far.
C23_Witness ==
    /\ NoEntries
    /\ chk.pc = "return"
    /\ chk.target.kind = "Domain"
    /\ chk.result.ips = <<A4b, A4a>>
    /\ chk.result.verdict = Clear
    /\ upd.pc = "dl" /\ upd.ds = "cdn"

(***************************************************************************)
(* More claims about check_target (under SpecProbe and SpecProbeFair).     *)
(***************************************************************************)
\* The attempts issued so far are numbered 1, 2, ... and none is numbered
\* above max(1, retry_count); a result comes after at least one attempt.
AttemptsWithinBudget ==
    /\ Len(history) = attempts
    /\ Len(built) = attempts
    /\ \A k \in DOMAIN built : built[k].attempt = k
    /\ attempts <= Budget
    /\ verdict # Pending => attempts >= 1

\* C24: check_target numbers its attempts 1, 2, ..., never issues one numbered
\* above max(1, retry_count), makes at least one attempt even when retry_count
\* is 0, and, every attempt ending, returns after finitely many attempts.
C24_AttemptsAreBoundedAndEnd ==
    /\ []AttemptsWithinBudget
    /\ <>(verdict # Pending)

\* With retry_count 0 the one attempt was made and gave the result.
C24_Witness ==
    /\ retry_count = 0
    /\ attempts = 1
    /\ built[1].attempt = 1
    /\ verdict = Blocked(FALSE)

\* What check_target returns when the attempt with outcome o is its last.
ResultOfLast(o) ==
    CASE o.k = "build_err" -> Err(o)
      [] FullResponse(o) -> Accepted
      [] ShortResponse(o) -> Blocked(FALSE)
      [] TimedOut(o) -> Blocked(o.k = "send_err")
      [] OTHER -> Err(o)

\* C25: the result of check_target is determined by the outcome of its last
\* attempt alone, whatever the earlier attempts ended in: timeouts followed by
\* a transport error that is not a timeout give that error and not Blocked, a
\* connection error followed by a short response gives Blocked(early = false).
C25_OnlyTheLastAttemptCounts ==
    verdict # Pending => verdict = ResultOfLast(Last(history))

\* A timeout, then a connection error on the last attempt: the error.
C25_Witness ==
    /\ Len(history) = 2
    /\ TimedOut(history[1])
    /\ history[2].k = "send_err" /\ ~history[2].timeout /\ history[2].connect
    /\ verdict = Err(history[2])

\* A connection error, then a short response on the last attempt: Blocked.
C25_WitnessShortAfterError ==
    /\ Len(history) = 2
    /\ history[1].k = "send_err" /\ history[1].connect
    /\ ShortResponse(history[2])
    /\ verdict = Blocked(FALSE)

\* The clients build_client has made for the attempts so far.
ClientsBuilt == {k \in DOMAIN built : built[k].client # <<>>}

\* C26: for every attempt number k the client of attempt k has a read timeout
\* of exactly timeout_secs seconds (multiplier 1) and an overall request
\* timeout of 15 seconds: the read timeout does not grow with k.
C26_ReadTimeoutIsConstant ==
    \A k \in ClientsBuilt :
        /\ built[k].attempt = k
        /\ built[k].client[1].read_timeout = timeout_secs
        /\ built[k].client[1].timeout = 15

\* The client of the second attempt, with --timeout-secs 5.
C26_Witness ==
    /\ timeout_secs = 5
    /\ 2 \in ClientsBuilt
    /\ built[2].client[1].read_timeout = 5

(***************************************************************************)
(* More claims about the prober's run (under SpecProber).                  *)
(***************************************************************************)
\* A probe task is spawned in this step.
Spawns == pos' # pos

C27_Step ==
    /\ cancelled # 0 => cancelled' # 0
    /\ (cancelled # 0 /\ mainPc # "acquire") =>
          /\ mainPc' # "acquire"
          /\ ~Spawns
          /\ futs' \subseteq futs
    /\ (cancelled # 0 /\ mainPc = "acquire" /\ Spawns) =>
          /\ pos' = pos + 1
          /\ futs' = futs \cup {pos}
          /\ mainPc' = "loop"
    /\ (cancelled # 0 /\ mainPc = "acquire" /\ ~Spawns) => mainPc' \in {"acquire", "exited"}

\* C27: once the first signal has set the flag it is never cleared, the loop
\* passes no further flag check towards a permit, and so it spawns no probe
\* except, at most, the one for which it had already passed the check and was
\* waiting for a permit when the flag was set.
C27_NoDispatchAfterTheFlag == [][C27_Step]_vars

\* The signal has come while the loop waits for a permit for the second target.
C27_Witness ==
    /\ cancelled = 1
    /\ mainPc = "acquire"
    /\ pos = 2
    /\ sem = 0
    /\ task[1].st = "running"

\* What the geo lookup of the first of `ips` gives with the databases as they
\* are now, IpInfo::default when there is no address.
GeoOfFirst(ips) ==
    IF ips = <<>> THEN IpInfoDefault ELSE GeoLookup(geo_ip, ips[1]).info

\* The geo step has run and no refresh can have replaced the databases since:
\* the check holds the read guard.
GeoTaken == chk.pc \in {"cdn", "ru", "return"}

\* C28: in a check that succeeds, geo is determined by the first resolved
\* address alone (IpInfo::default when nothing was resolved), and ips is the
\* whole resolved list in the order of the resolution.
C28_GeoIsOfTheFirstAddress ==
    /\ GeoTaken =>
         /\ chk.geo = <<GeoOfFirst(chk.ips)>>
         /\ chk.ips = ResolvedNow.ips
    /\ chk.pc = "return" =>
         /\ chk.result.geo = GeoOfFirst(ResolvedNow.ips)
         /\ \A rest \in ResolvedLists :
               (rest # <<>> /\ ResolvedNow.ips # <<>> /\ rest[1] = ResolvedNow.ips[1])
                   => chk.result.geo = GeoOfFirst(rest)
         /\ chk.result.ips = ResolvedNow.ips

\* Two addresses were resolved; geo is that of the first, ips has both.
C28_Witness ==
    /\ chk.pc = "return"
    /\ geo_ip.asn = "v1"
    /\ chk.result.ips = <<A4b, A4a>>
    /\ chk.result.geo.asn = <<"AS", A4b>>

\* Nothing was resolved: the default IpInfo.
C28_WitnessNoAddress ==
    /\ chk.pc = "return"
    /\ geo_ip.asn = "v1"
    /\ chk.result.ips = <<>>
    /\ chk.result.geo = IpInfoDefault

\* The RKN networks contains_ip gives for the addresses of `ips`.
SubnetsOf(ips) ==
    {n \in Nets : \E k \in DOMAIN ips : ContainsIp(ru_blacklist, ips[k]) = <<n>>}

\* The CDN records contains gives for the addresses of `ips`.
RecordsOf(ips) ==
    {CdnContains(cdn_list, ips[k])[1] :
        k \in {j \in DOMAIN ips : CdnContains(cdn_list, ips[j]) # <<>>}}

\* The label of a record: the provider, followed by the region in
\* parentheses when there is one.
LabelOf(r) ==
    IF r.region = <<>> THEN <<r.provider>> ELSE <<r.provider, " (", r.region[1], ")">>

\* C29: rkn_subnets is the set of the contains_ip results over all resolved
\* addresses, and cdn_provider_subnets maps each label to the set of the CDN
\* records with that label matched by any resolved address: a later address
\* counts like the first, and addresses matching one network give one element.
C29_MatchesOfAllAddresses ==
    /\ chk.pc = "ru" =>
         /\ DOMAIN chk.cdn = {LabelOf(r) : r \in RecordsOf(chk.ips)}
         /\ \A l \in DOMAIN chk.cdn :
               chk.cdn[l] = {r \in RecordsOf(chk.ips) : LabelOf(r) = l}
    /\ chk.pc = "return" =>
         /\ chk.subnets = SubnetsOf(chk.ips)
         /\ ~chk.result.verdict.clear =>
              /\ chk.result.verdict.rkn_subnets = SubnetsOf(chk.ips)
              /\ chk.result.verdict.cdn_provider_subnets = chk.cdn

\* Two addresses inside one RKN network, which is counted once, and inside
\* CDN networks of two labels.
C29_Witness ==
    /\ chk.pc = "return"
    /\ chk.ips = <<A4a, A4c>>
    /\ chk.subnets = {Net(4, <<0>>)}
    /\ Cardinality(DOMAIN chk.cdn) = 2

\* Only the second address is inside an RKN network.
C29_WitnessSecondAddress ==
    /\ chk.pc = "return"
    /\ chk.ips = <<A4b, A4a>>
    /\ chk.subnets = {Net(4, <<0>>)}

\* The target of the check at hand is an address.
IpTarget == chk.target.kind \in {"Ipv4", "Ipv6"}

\* C30: for an IPv4 or IPv6 target check does not ask the domain blacklist:
\* rkn_domain is None whatever the blacklist holds, and the verdict is Blocked
\* only when a CDN network or an RKN subnet matched the address.
C30_AddressTargetsSkipTheDomainList ==
    (IpTarget /\ chk.pc = "return") =>
        /\ chk.domain = <<>>
        /\ chk.ips = <<chk.target.addr>>
        /\ LET v == chk.result.verdict
           IN  ~v.clear =>
                 /\ v.rkn_domain = <<>>
                 /\ DOMAIN v.cdn_provider_subnets # {} \/ v.rkn_subnets # {}
                 /\ CdnContains(cdn_list, chk.target.addr) # <<>>
                       \/ ContainsIp(ru_blacklist, chk.target.addr) # <<>>

\* An address is checked, Blocked by an RKN subnet, while the blacklist holds domains.
C30_Witness ==
    /\ IpTarget
    /\ chk.pc = "return"
    /\ ru_blacklist.domain_count > 0
    /\ ~chk.result.verdict.clear
    /\ chk.result.verdict.rkn_domain = <<>>
    /\ chk.result.verdict.rkn_subnets # {}

\* An address is checked and is Clear while the blacklist holds domains.
C30_WitnessClear ==
    /\ IpTarget
    /\ chk.pc = "return"
    /\ ru_blacklist.domain_count > 0
    /\ chk.result.verdict.clear

(***************************************************************************)
(* Claims about unresolvable targets and the geo lookup (SpecChecker).     *)
(***************************************************************************)
\* The domain of the check at hand, or an ancestor of it, is on the blacklist.
Blacklisted ==
    /\ chk.target.kind = "Domain"
    /\ ContainsDomain(ru_blacklist, chk.target.name) # <<>>

\* C31: the check of a domain whose resolution gives no records returns
\* NotFound, also when the domain or an ancestor of it is on the RKN domain
\* blacklist: the datasets are asked only after a resolution that succeeded,
\* so an unresolvable blacklisted domain is never reported as Blocked.
C31_UnresolvableIsNotFound ==
    /\ (chk.target.kind = "Domain" /\ chk.raw.k = "no_records") =>
          /\ chk.pc = "done"
          /\ chk.result = [k |-> "Err", err |-> "NotFound", e |-> None]
          /\ chk.domain = <<>> /\ chk.geo = <<>>
    /\ chk.pc \in {"geo", "cdn", "ru", "return"} => chk.raw.k \in {"ok", "none"}
    /\ chk.result.k = "Ok" => chk.raw.k \in {"ok", "none"}

\* A blacklisted domain that does not resolve: NotFound.
C31_Witness ==
    /\ chk.raw.k = "no_records"
    /\ Blacklisted
    /\ chk.pc = "done"
    /\ chk.result.err = "NotFound"

(***************************************************************************)
(* Claims about GeoIp::lookup (under SpecGeo).                             *)
(***************************************************************************)
\* The databases that are loaded, and those that report a read error.
Loaded == {d \in DOMAIN geoReads : geoReads[d].k # "absent"}
Unreadable == {d \in DOMAIN geoReads : geoReads[d].k = "err"}

\* C33: lookup succeeds for every subset of loaded databases whenever no
\* loaded database reports a read error; an absent database contributes
\* nothing, and with no database loaded the result is the default IpInfo:
\* asn, country_code, organisation and city id absent, location "-".
C33_LookupToleratesAbsentDatabases ==
    geoInfo # <<>> =>
        LET r == geoInfo[1]
        IN  /\ r.ok <=> Unreadable = {}
            /\ r.ok =>
                 /\ "asn" \notin Loaded => r.info.asn = <<>> /\ r.info.organisation = <<>>
                 /\ "country" \notin Loaded => r.info.country_code = <<>>
                 /\ "city" \notin Loaded => r.info.city_geo_name_id = <<>>
                 /\ ("city" \notin Loaded /\ "country" \notin Loaded) =>
                       r.info.location = <<"-">>
                 /\ Loaded = {} =>
                       r.info = [asn |-> <<>>, country_code |-> <<>>, organisation |-> <<>>,
                                 city_geo_name_id |-> <<>>, location |-> <<"-">>]

\* Only the ASN database is loaded: the lookup succeeds with the ASN alone.
C33_Witness ==
    /\ geoInfo # <<>>
    /\ Loaded = {"asn"}
    /\ geoInfo[1].ok
    /\ geoInfo[1].info.asn = <<"AS", 1>>
    /\ geoInfo[1].info.location = <<"-">>

\* No database is loaded: the default IpInfo.
C33_WitnessNoDatabase ==
    /\ geoInfo # <<>>
    /\ Loaded = {}
    /\ geoInfo[1] = [ok |-> TRUE, info |-> IpInfoDefault]

\* The name in the display locale that a names field holds, <<>> when it
\* holds none.
Known(names) ==
    IF names # <<>> /\ DisplayLocale \in DOMAIN names[1] THEN <<names[1][DisplayLocale]>> ELSE <<>>

\* The city's and the country's name in the City record, and the country's
\* name in the Country record.
CityName ==
    LET c == RecordOf(geoReads.city)
    IN  IF c # <<>> /\ c[1].city # <<>> THEN Known(c[1].city[1].names) ELSE <<>>
CountryNameOfCity ==
    LET c == RecordOf(geoReads.city)
    IN  IF c # <<>> /\ c[1].country # <<>> THEN Known(c[1].country[1].names) ELSE <<>>
CountryName ==
    LET c == RecordOf(geoReads.country)
    IN  IF c # <<>> /\ c[1].country # <<>> THEN Known(c[1].country[1].names) ELSE <<>>

\* C34: the location of a lookup that succeeds is "{city}, {country}" exactly
\* when the city's and the country's name are known in the display locale,
\* else the country's name alone when that is known, else "-"; a two-part
\* location never holds the placeholder "-".
C34_LocationNamesAreKnown ==
    (geoInfo # <<>> /\ geoInfo[1].ok) =>
        LET loc == geoInfo[1].info.location
        IN  /\ Len(loc) = 3 <=> (CityName # <<>> /\ CountryNameOfCity # <<>>)
            /\ Len(loc) = 3 => loc = <<CityName[1], ", ", CountryNameOfCity[1]>>
            /\ Len(loc) = 3 => loc[1] # "-" /\ loc[3] # "-"
            /\ (Len(loc) # 3 /\ CountryName # <<>>) => loc = <<CountryName[1]>>
            /\ (Len(loc) # 3 /\ CountryName = <<>>) => loc = <<"-">>

(***************************************************************************)
(* The geo lookup inside Checker::check (under SpecChecker).               *)
(***************************************************************************)
\* A loaded database is corrupt: its lookups are Err.
DatabaseError == "broken" \in {geo_ip.asn, geo_ip.city, geo_ip.country}

GeoIpError == [k |-> "Err", err |-> "GeoIpError", e |-> None]

C32_Step ==
    /\ chk.result = GeoIpError =>
          /\ chk.pc = "done"
          /\ chk.cdn = EmptyMap /\ chk.subnets = {} /\ chk.domain = <<>>
    /\ (chk.pc = "geo" /\ chk' # chk) =>
          IF chk.ips # <<>> /\ DatabaseError
          THEN chk'.pc = "done" /\ chk'.result = GeoIpError
          ELSE /\ chk'.pc = "cdn"
               /\ chk'.result = NoResult
               /\ chk'.geo = <<IF chk.ips = <<>> THEN IpInfoDefault
                               ELSE IpInfoOf(RecordOf(DbRead(geo_ip.asn, "asn", chk.ips[1])),
                                             RecordOf(DbRead(geo_ip.city, "city", chk.ips[1])),
                                             RecordOf(DbRead(geo_ip.country, "country", chk.ips[1])))>>

\* C32: when the geo lookup of the first resolved address fails with a
\* database error, check returns GeoIpError and no verdict, also for a target
\* that would match a blacklist or a CDN network; a lookup that finds no
\* record is no error and gives an IpInfo with the fields that were found.
C32_GeoFailureFailsTheCheck == [][C32_Step]_vars

\* A blacklisted domain is checked with a corrupt database: GeoIpError.
C32_Witness ==
    /\ chk.result = GeoIpError
    /\ DatabaseError
    /\ Blacklisted

\* An address without a record in two of the databases: a partial IpInfo.
C32_WitnessNoRecord ==
    /\ chk.pc = "return"
    /\ chk.ips = <<A6a>>
    /\ geo_ip = [asn |-> "v2", country |-> "v1", city |-> "v1"]
    /\ chk.result.geo.asn = <<"AS", A6a>>
    /\ chk.result.geo.country_code = <<>>
    /\ chk.result.geo.location = <<"-">>

(***************************************************************************)
(* The refresh cycle (under SpecChecker).                                  *)
(***************************************************************************)
\* The datasets whose write lock the refresher holds or queues for.
WriteLocks == {d \in Datasets : lock[d].writer \/ lock[d].waiting}

\* The dataset update_all handles after ds.
NextDataset(ds) ==
    CASE ds = "none" -> "geo"
      [] ds = "geo" -> "ru"
      [] ds = "ru" -> "cdn"
      [] ds = "cdn" -> "none"

C35_Step ==
    /\ Cardinality(WriteLocks) <= 1
    /\ \A d \in WriteLocks : upd.ds = d /\ upd.pc \in {"req", "install", "install2", "release"}
    /\ cycles' # cycles => upd.pc = "idle" /\ upd'.pc = "dl" /\ upd'.ds = "geo"
    /\ upd'.ds # upd.ds =>
          /\ upd'.ds = NextDataset(upd.ds)
          /\ upd.ds # "none" => upd.pc \in {"dl", "release"}
          /\ WriteLocks' = {}
    /\ (upd.pc = "dl" /\ upd'.pc \notin {"dl", "req"}) => upd'.ds # upd.ds
    /\ upd.pc \in {"req", "install", "install2"} => upd'.ds = upd.ds
    /\ (upd'.pc = "publish" /\ upd.pc # "publish") => upd.ds = "cdn"
    /\ last_update' # last_update =>
          /\ upd.pc = "publish"
          /\ upd'.pc = "idle"
          /\ last_update' = <<cycles>>

\* C35: one update_all cycle runs at a time; within it GeoIP, RuBlacklist and
\* CdnList are handled in that order, each download and install ending before
\* the next dataset starts, so the refresher holds at most one write lock at
\* any time, and the timestamp is published only after the third dataset.
C35_RefreshIsSequential == [][C35_Step]_vars

\* The second cycle installs the CDN list while a check holds read locks.
C35_Witness ==
    /\ cycles = 2
    /\ upd.pc = "install" /\ upd.ds = "cdn"
    /\ WriteLocks = {"cdn"}
    /\ lock["geo"].readers = 1
    /\ last_update = <<1>>

(***************************************************************************)
(* Concurrent checks and update_all (under SpecLocksFair).                 *)
(***************************************************************************)
\* The check call c has resolved its target and has not returned.
InFlight(c) == peers[c] \in {"geo", "cdn", "ru", "return"}

\* The read guards the calls in flight hold, per dataset.
GuardsHeld(d) ==
    Cardinality({c \in Checks :
        \/ d = "geo" /\ peers[c] \in {"cdn", "ru", "return"}
        \/ d = "cdn" /\ peers[c] \in {"ru", "return"}
        \/ d = "ru" /\ peers[c] = "return"})

\* C36: concurrent checks interleaved with update_all never deadlock: every
\* check takes the geo, cdn and ru read locks in that order and keeps them,
\* update_all holds at most one write lock and waits for no other meanwhile,
\* so with fair locks every check that has resolved its target returns and
\* every install gets its write lock.
C36_ChecksAndRefreshMakeProgress ==
    /\ [](\A d \in Datasets : lock[d].readers = GuardsHeld(d))
    /\ [](Cardinality({d \in Datasets : lock[d].writer \/ lock[d].waiting}) <= 1)
    /\ \A c \in Checks : InFlight(c) ~> (peers[c] = "idle")
    /\ (upd.pc = "req") ~> (upd.pc = "install")

\* One check holds the geo guard and waits behind the writer queued for the
\* CDN list, which waits for the other check, holding a CDN guard, to return.
C36_Witness ==
    /\ peers[1] = "cdn"
    /\ peers[2] = "ru"
    /\ upd.pc = "req" /\ upd.ds = "cdn"
    /\ lock["cdn"].waiting
    /\ lock["cdn"].readers = 1

(***************************************************************************)
(* last_update and the healthcheck (under SpecWatch).                      *)
(***************************************************************************)
\* The update_all cycles that have returned.
CyclesCompleted == IF upd.pc = "idle" THEN cycles ELSE cycles - 1

NothingLoaded ==
    /\ cdn_list = CdnNew
    /\ ru_blacklist = RuNew
    /\ geo_ip = GeoNew

C37_Step ==
    /\ (last_update = <<>>) <=> (CyclesCompleted = 0)
    /\ (last_update' = <<>>) <=> (CyclesCompleted' = 0)
    /\ last_update # <<>> => last_update' # <<>>
    /\ \A r \in Readers :
          observed'[r] # observed[r] =>
             (Healthcheck(observed'[r].value) = "OK" <=> CyclesCompleted >= 1)

\* C37: last_update() is None from construction until the first update_all
\* cycle has completed and Some ever after, whether or not any download or
\* install of the cycle succeeded: a healthcheck answers OK exactly when at
\* least one cycle has completed.
C37_HealthyAfterFirstCycle == [][C37_Step]_vars

\* The only cycle so far failed for all three datasets, nothing is loaded,
\* and a caller has been answered Some.
C37_Witness ==
    /\ cycles = 1 /\ upd.pc = "idle"
    /\ upd.failed = {"geo", "ru", "cdn"}
    /\ NothingLoaded
    /\ observed[1].called
    /\ Healthcheck(observed[1].value) = "OK"

(***************************************************************************)
(* total_v4s (under SpecTotals).                                           *)
(***************************************************************************)
\* C38: total_v4s returns the sum of the CDN list's and the RKN blacklist's
\* IPv4 address counts as the integers add: the addition of the two counts
\* neither overflows nor wraps.
C38_TotalIsTheSum ==
    totals.pc = "done" =>
        totals.result = <<[k |-> "Ok", value |-> totals.cdn + totals.ru]>>

(***************************************************************************)
(* The Counter during collection (under SpecProber).                       *)
(***************************************************************************)
\* Two of the results collected so far are of the same target name.
NameCollectedTwice == \E i, j \in Returned : i # j /\ targets[i] = targets[j]

\* C39: all through the collection loop ok + block + err is the number of
\* task results collected that were not join errors, early is at most block,
\* and the results map has total() entries, fewer only when a target name
\* was probed more than once.
C39_CounterMatchesCollected ==
    /\ CounterTotal(counter) = Cardinality(Returned)
    /\ counter.early <= counter.block
    /\ Cardinality(DOMAIN counter.results) <= CounterTotal(counter)
    /\ Cardinality(DOMAIN counter.results) < CounterTotal(counter) => NameCollectedTwice
    /\ ~NameCollectedTwice => Cardinality(DOMAIN counter.results) = CounterTotal(counter)

\* In the loop: a join error was passed over, two results of one name were
\* counted, one of them an early block, and the map has one entry.
C39_Witness ==
    /\ mainPc = "collect"
    /\ \E i \in DOMAIN task : task[i].st = "lost"
    /\ CounterTotal(counter) = 2
    /\ counter.early = 1
    /\ counter.err = 1
    /\ Cardinality(DOMAIN counter.results) = 1
====
